---- MODULE Spec2Model ----
(***************************************************************************)
(* VeriGen: the tool orchestrator of main.cpp and the EDA backends under   *)
(* tools/.  Two specifications share this module:                          *)
(*   ToolSpec  one call of Tool::run of one backend on one environment     *)
(*             (which steps fail, what the transcript holds);              *)
(*   Spec      the driver loop of main(): iterations, the watchdog around  *)
(*             the worker that executes Tool::run, the counters and the    *)
(*             exit code.                                                  *)
(***************************************************************************)
EXTENDS Integers, Sequences, FiniteSets, TLC

(***************************************************************************)
(* Bounds of the model.                                                    *)
(***************************************************************************)
\* a transcript holds at most this many characters
MaxLogLen == 4
\* at most this many steps of one Tool::run fail
MaxFaults == 1
\* opt.iter ranges over 0..MaxIter
MaxIter == 2
\* the oracle value of an iteration ranges over 0..MaxGolden
MaxGolden == 1

(***************************************************************************)
(* Transcripts.  A transcript is the text of a log file, a sequence of     *)
(* characters.  "RES=" stands for one occurrence of that four-character    *)
(* substring, "1" and "a" are hexadecimal digits, "x" is a character that  *)
(* is no hexadecimal digit (Verilog prints x for an undriven bit) and      *)
(* "\n" ends a line.  The empty transcript also stands for a log file that *)
(* does not exist: std::ifstream then yields no line.                      *)
(***************************************************************************)
Alphabet == {"RES=", "1", "a", "x", "\n"}

HexDigits == {"1", "a"}

HexVal(c) == IF c = "1" THEN 1 ELSE 10

Logs == UNION {[1..n -> Alphabet] : n \in 0..MaxLogLen}

\* std::getline: the text up to the next newline (or the end of the file)
RECURSIVE getline(_, _)
getline(text, k) ==
    IF k > Len(text) \/ text[k] = "\n" THEN <<>>
    ELSE <<text[k]>> \o getline(text, k + 1)

\* the lines std::getline delivers from position k on, one after another
RECURSIVE LinesFrom(_, _)
LinesFrom(text, k) ==
    IF k > Len(text) THEN <<>>
    ELSE LET l == getline(text, k)
         IN  <<l>> \o LinesFrom(text, k + Len(l) + 1)

FileLines(text) == LinesFrom(text, 1)

\* std::string::find("RES="): the first position of RES= in the line, npos = 0
RECURSIVE find(_, _)
find(line, k) ==
    IF k > Len(line) THEN 0
    ELSE IF line[k] = "RES=" THEN k
    ELSE find(line, k + 1)

\* line.substr(p + 4): the rest of the line behind the RES= at position p
substr(line, p) == SubSeq(line, p + 1, Len(line))

\* while (getline) if (find != npos) { hex = substr; break; }
\* the text behind the first RES= of the first line that holds one, "" if none
RECURSIVE ScanRes(_, _)
ScanRes(lines, n) ==
    IF n > Len(lines) THEN <<>>
    ELSE LET p == find(lines[n], 1)
         IN  IF p # 0 THEN substr(lines[n], p) ELSE ScanRes(lines, n + 1)

\* the longest prefix of hexadecimal digits of s, from position k on
RECURSIVE HexRun(_, _)
HexRun(s, k) ==
    IF k > Len(s) \/ s[k] \notin HexDigits THEN <<>>
    ELSE <<s[k]>> \o HexRun(s, k + 1)

RECURSIVE HexNum(_, _)
HexNum(digits, n) ==
    IF n = 0 THEN 0 ELSE 16 * HexNum(digits, n - 1) + HexVal(digits[n])

\* std::stoul(s, nullptr, 16): converts the leading digits and ignores what
\* follows them; throws std::invalid_argument when s starts with no digit.
\* (The transcripts of this model hold no blank, sign or 0x prefix, and at
\* most MaxLogLen digits, so the value stays below 2^32 and the cast to
\* uint32_t leaves it unchanged.)
stoul(s) ==
    LET d == HexRun(s, 1)
    IN  IF d = <<>> THEN [ok |-> FALSE, v |-> 0]
        ELSE [ok |-> TRUE, v |-> HexNum(d, Len(d))]

\* std::regex_search(line, m, RES=([0-9a-fA-F]+)): the capture of the leftmost
\* match, "" when the line has none
RECURSIVE regex_search(_, _)
regex_search(line, k) ==
    IF k > Len(line) THEN <<>>
    ELSE IF line[k] = "RES=" /\ HexRun(line, k + 1) # <<>> THEN HexRun(line, k + 1)
    ELSE regex_search(line, k + 1)

\* while (getline) if (regex_search) { resStr = m[1]; break; }
RECURSIVE ScanRegex(_, _)
ScanRegex(lines, n) ==
    IF n > Len(lines) THEN <<>>
    ELSE LET m == regex_search(lines[n], 1)
         IN  IF m # <<>> THEN m ELSE ScanRegex(lines, n + 1)

(***************************************************************************)
(* What a call of Tool::run yields: a ToolResult, or an exception that     *)
(* leaves run.                                                             *)
(***************************************************************************)
ToolResult(s, v, l) == [kind |-> "result", success |-> s, value |-> v, log |-> l]

Throw(what) == [kind |-> "throw", success |-> FALSE, value |-> 0, log |-> what]

NoRun == [kind |-> "none", success |-> FALSE, value |-> 0, log |-> ""]

(***************************************************************************)
(* The environment of one run: the steps that fail (a directory or file    *)
(* that cannot be written, a subprocess that exits non-zero) and the text  *)
(* of the transcript the backend reads.                                    *)
(***************************************************************************)
QuartusSteps ==
    {"mkdir", "tcl", "quartus_sh", "quartus_fit", "quartus_eda", "tb", "do", "vsim"}

QuartusProSteps == {"mkdir", "tcl", "quartus_sh", "quartus_eda", "tb", "do", "vsim"}

VivadoSteps == {"mkdir", "copy", "vivado", "xsim"}

IcarusSteps == {"mkdir", "tb", "iverilog", "vvp"}

ModelSimSteps == {"mkdir", "tb", "do", "vsim"}

\* the steps that are subprocesses (std::system)
Subprocesses ==
    {"quartus_sh", "quartus_fit", "quartus_eda", "vsim", "vivado", "xsim",
     "iverilog", "vvp"}

Envs(steps) ==
    {[fail |-> f, log |-> l] :
        f \in {s \in SUBSET steps : Cardinality(s) <= MaxFaults}, l \in Logs}

NoEnv == [fail |-> {}, log |-> <<>>]

\* a step that writes a file or runs a subprocess succeeds
ok(env, step) == step \notin env.fail

(***************************************************************************)
(* The backends.  Each X_run(env) is Tool::run of backend X: the outcome   *)
(* of the call in environment env.                                         *)
(***************************************************************************)
\* a uint32_t returned, or an exception thrown, by a parsing helper
Returned(v) == [thrown |-> FALSE, v |-> v]

Thrown == [thrown |-> TRUE, v |-> 0]

\* the scan of vsim_log.txt shared by runModelSim and grab_res: throws when
\* no RES= text is found and lets stoul's exception pass
ParseRes(text) ==
    LET h == ScanRes(FileLines(text), 1)
    IN  IF h = <<>> THEN Thrown
        ELSE IF ~stoul(h).ok THEN Thrown
        ELSE Returned(stoul(h).v)

\* QuartusSynthesiser::runQuartus: quartus_sh && quartus_fit
Quartus_runQuartus(env) == ok(env, "quartus_sh") /\ ok(env, "quartus_fit")

\* QuartusSynthesiser::runModelSim
Quartus_runModelSim(env) ==
    IF ~ok(env, "vsim") THEN Thrown ELSE ParseRes(env.log)

\* QuartusTool::run
QuartusTool_run(env) ==
    IF ~ok(env, "mkdir") THEN Throw("filesystem_error")
    ELSE IF \/ ~ok(env, "tcl")
            \/ ~Quartus_runQuartus(env)
            \/ ~ok(env, "quartus_eda")
            \/ ~ok(env, "tb")
            \/ ~ok(env, "do")
         THEN ToolResult(FALSE, 0, "quartus.log")
    ELSE LET v == Quartus_runModelSim(env)
         IN  IF v.thrown THEN ToolResult(FALSE, 0, "vsim_log.txt")
             ELSE ToolResult(TRUE, v.v, "vsim_log.txt")

\* QuartusProSynthesiser::runQuartus: quartus_sh alone
QuartusPro_runQuartus(env) == ok(env, "quartus_sh")

\* QuartusProSynthesiser::runModelSim
QuartusPro_runModelSim(env) ==
    IF ~ok(env, "vsim") THEN Thrown ELSE ParseRes(env.log)

\* QuartusProTool::run
QuartusProTool_run(env) ==
    IF ~ok(env, "mkdir") THEN Throw("filesystem_error")
    ELSE IF \/ ~ok(env, "tcl")
            \/ ~QuartusPro_runQuartus(env)
            \/ ~ok(env, "quartus_eda")
            \/ ~ok(env, "tb")
            \/ ~ok(env, "do")
         THEN ToolResult(FALSE, 0, "quartus.log")
    ELSE LET v == QuartusPro_runModelSim(env)
         IN  IF v.thrown THEN ToolResult(FALSE, 0, "vsim_log.txt")
             ELSE ToolResult(TRUE, v.v, "vsim_log.txt")

\* VivadoTool::run: the exit status of the synthesis run is looked at only to
\* print a message; the result rests on the xsim command line and its log
VivadoTool_run(env) ==
    IF ~ok(env, "mkdir") \/ ~ok(env, "copy") THEN Throw("filesystem_error")
    ELSE LET simRC  == IF ok(env, "xsim") THEN 0 ELSE 1
             resStr == ScanRegex(FileLines(env.log), 1)
         IN  ToolResult(simRC = 0 /\ resStr # <<>>,
                        IF resStr = <<>> THEN 0 ELSE stoul(resStr).v,
                        "xsim.log")

\* IcarusTool::run: stoul is called outside any try block
IcarusTool_run(env) ==
    IF ~ok(env, "mkdir") THEN Throw("filesystem_error")
    ELSE IF ~ok(env, "tb") THEN ToolResult(FALSE, 0, "tb.v")
    ELSE IF ~ok(env, "iverilog") THEN ToolResult(FALSE, 0, "iverilog.log")
    ELSE IF ~ok(env, "vvp") THEN ToolResult(FALSE, 0, "vvp_out.txt")
    ELSE LET hex == ScanRes(FileLines(env.log), 1)
         IN  IF hex = <<>> THEN ToolResult(FALSE, 0, "vvp_out.txt")
             ELSE IF ~stoul(hex).ok THEN Throw("invalid_argument")
             ELSE ToolResult(TRUE, stoul(hex).v, "vvp_out.txt")

\* ModelSimOnlyTool::grab_res
grab_res(text) == ParseRes(text)

\* ModelSimOnlyTool::run: write_tb and write_do throw outside the try block
ModelSimOnlyTool_run(env) ==
    IF ~ok(env, "mkdir") THEN Throw("filesystem_error")
    ELSE IF ~ok(env, "tb") \/ ~ok(env, "do") THEN Throw("runtime_error")
    ELSE IF ~ok(env, "vsim") THEN ToolResult(FALSE, 0, "vsim_log.txt")
    ELSE LET v == grab_res(env.log)
         IN  IF v.thrown THEN ToolResult(FALSE, 0, "vsim_log.txt")
             ELSE ToolResult(TRUE, v.v, "vsim_log.txt")

\* CompareSimTool::run without the test "if either failed, propagate failure"
CompareSimTool_run_NoFailureTest(rI, rM) ==
    IF rI.kind = "throw" THEN rI
    ELSE IF rM.kind = "throw" THEN rM
    ELSE IF rI.value # rM.value THEN ToolResult(FALSE, rI.value, "Mismatch")
    ELSE ToolResult(TRUE, rI.value, "")

\* CompareSimTool::run reporting two differing values as a success
CompareSimTool_run_DifferIsSuccess(rI, rM) ==
    IF rI.kind = "throw" THEN rI
    ELSE IF rM.kind = "throw" THEN rM
    ELSE IF ~rI.success \/ ~rM.success
         THEN ToolResult(FALSE, IF rI.success THEN rM.value ELSE rI.value, "logs")
    ELSE IF rI.value # rM.value THEN ToolResult(TRUE, rI.value, "Mismatch")
    ELSE ToolResult(TRUE, rI.value, "")

\* CompareSimTool::run on the outcomes rI, rM of its two children; an
\* exception of a child leaves run (and the second child is not started
\* when the first one throws)
CompareSimTool_run(rI, rM) ==
    IF rI.kind = "throw" THEN rI
    ELSE IF rM.kind = "throw" THEN rM
    ELSE IF ~rI.success \/ ~rM.success
         THEN ToolResult(FALSE, IF rI.success THEN rM.value ELSE rI.value, "logs")
    ELSE IF rI.value # rM.value THEN ToolResult(FALSE, rI.value, "Mismatch")
    ELSE ToolResult(TRUE, rI.value, "")

\* the outcomes each backend can produce in the environments of the model
QuartusOutcomes == {QuartusTool_run(e) : e \in Envs(QuartusSteps)}

QuartusProOutcomes == {QuartusProTool_run(e) : e \in Envs(QuartusProSteps)}

VivadoOutcomes == {VivadoTool_run(e) : e \in Envs(VivadoSteps)}

IcarusOutcomes == {IcarusTool_run(e) : e \in Envs(IcarusSteps)}

ModelSimOutcomes == {ModelSimOnlyTool_run(e) : e \in Envs(ModelSimSteps)}

\* the second child runs only when the first returned
CompareSimChildren ==
    {<<rI, rM>> \in IcarusOutcomes \X (ModelSimOutcomes \cup {NoRun}) :
        (rI.kind = "throw") <=> (rM = NoRun)}

(***************************************************************************)
(* Tool::name of the backend that option --tool selects (main.cpp's        *)
(* switch); a selector outside 1..6 adds no tool.                          *)
(***************************************************************************)
ToolSelectors == 1..7

name(t) ==
    CASE t = 1 -> "quartus"
      [] t = 2 -> "quartus"
      [] t = 3 -> "vivado"
      [] t = 4 -> "icarus"
      [] t = 5 -> "modelsim"
      [] t = 6 -> "CompareSim"

(***************************************************************************)
(* The runs of the selected backend that the worker of main() can make:    *)
(* the outcome of Tool::run and, for CompareSim, those of its children.    *)
(***************************************************************************)
Run(out, rI, rM) == [out |-> out, rI |-> rI, rM |-> rM]

CompareSimRuns ==
    {Run(CompareSimTool_run(c[1], c[2]), c[1], c[2]) : c \in CompareSimChildren}

WorkerRuns(t) ==
    CASE t = 1 -> {Run(o, NoRun, NoRun) : o \in QuartusOutcomes}
      [] t = 2 -> {Run(o, NoRun, NoRun) : o \in QuartusProOutcomes}
      [] t = 3 -> {Run(o, NoRun, NoRun) : o \in VivadoOutcomes}
      [] t = 4 -> {Run(o, NoRun, NoRun) : o \in IcarusOutcomes}
      [] t = 5 -> {Run(o, NoRun, NoRun) : o \in ModelSimOutcomes}
      [] t = 6 -> CompareSimRuns

\* the vector `tools` that main() fills from opt.tool
tools(t) == IF t \in 1..6 THEN <<t>> ELSE <<>>

\* main.cpp:210  if (!res.success)
ToolFailure(r) == ~r.success

\* the test of main.cpp:215 without the exemption of CompareSim
Mismatch_NoNameTest(nm, r, g) == r.value # g

\* main.cpp:215  if (t->name() != "CompareSim" && res.value != golden)
Mismatch(nm, r, g) == nm # "CompareSim" /\ r.value # g

\* the return statements of main.cpp:250-251 in the other order
ExitCode_TimeoutFirst(crash, mismatch, timeout) ==
    IF crash = 0 /\ mismatch = 0 /\ timeout = 0 THEN 0
    ELSE IF timeout # 0 THEN 2
    ELSE IF crash # 0 THEN 3
    ELSE 1

\* main.cpp:249-252, the value main() returns
ExitCode(crash, mismatch, timeout) ==
    IF crash = 0 /\ mismatch = 0 /\ timeout = 0 THEN 0
    ELSE IF crash # 0 THEN 3
    ELSE IF timeout # 0 THEN 2
    ELSE 1

(***************************************************************************)
(* 32-bit unsigned arithmetic.  A uint32_t is the pair <<hi, lo>> of its   *)
(* two 16-bit halves, most significant first, so that every operation      *)
(* keeps the width of the C++ type: the results are reduced modulo 2^32.   *)
(***************************************************************************)
\* the weight of the upper half, 2^16
Half == 65536

u32(hi, lo) == <<hi, lo>>

\* the uint32_t 0
Zero32 == u32(0, 0)

\* one bit of a bitwise operator
BitOf(op, p, q) ==
    CASE op = "&" -> IF p = 1 /\ q = 1 THEN 1 ELSE 0
      [] op = "|" -> IF p = 1 \/ q = 1 THEN 1 ELSE 0
      [] op = "^" -> IF p # q THEN 1 ELSE 0

\* a bitwise operator on the low n bits of two halves
RECURSIVE Bitwise(_, _, _, _)
Bitwise(op, p, q, n) ==
    IF n = 0 THEN 0
    ELSE BitOf(op, p % 2, q % 2) + 2 * Bitwise(op, p \div 2, q \div 2, n - 1)

\* acc += r on uint32_t
Add32(a, b) ==
    LET lo == a[2] + b[2]
        hi == a[1] + b[1] + (lo \div Half)
    IN  u32(hi % Half, lo % Half)

\* acc -= r on uint32_t
Sub32(a, b) ==
    LET lo == a[2] - b[2]
        hi == a[1] - b[1] - (IF lo < 0 THEN 1 ELSE 0)
    IN  u32((hi + Half) % Half, (lo + Half) % Half)

\* acc &= r, acc |= r, acc ^= r on uint32_t
Bit32(op, a, b) == u32(Bitwise(op, a[1], b[1], 16), Bitwise(op, a[2], b[2], 16))

\* the compound assignment `acc op= r` of one operator token
Apply32(op, a, b) ==
    CASE op = "+" -> Add32(a, b)
      [] op = "-" -> Sub32(a, b)
      [] OTHER -> Bit32(op, a, b)

\* a uint32_t modulo a small positive number
Mod32(a, n) == ((a[1] % n) * (Half % n) + a[2]) % n

(***************************************************************************)
(* Text of numbers.  A number in the emitted Verilog is the sequence of    *)
(* its digits, each digit a number below the base.                         *)
(***************************************************************************)
\* the n hexadecimal digits of a half, most significant first
RECURSIVE HexDigitsOf(_, _)
HexDigitsOf(h, n) ==
    IF n = 0 THEN <<>> ELSE Append(HexDigitsOf(h \div 16, n - 1), h % 16)

\* std::hex << std::setw(8) << std::setfill('0') << v, after the "32'h"
hex32(v) == HexDigitsOf(v[1], 4) \o HexDigitsOf(v[2], 4)

\* the value of hexadecimal digits
RECURSIVE HexValue(_)
HexValue(ds) ==
    IF ds = <<>> THEN 0
    ELSE 16 * HexValue(SubSeq(ds, 1, Len(ds) - 1)) + ds[Len(ds)]

\* what a Verilog reader makes of the sized literal 32'h followed by 8 digits
ReadHex32(ds) == u32(HexValue(SubSeq(ds, 1, 4)), HexValue(SubSeq(ds, 5, 8)))

(***************************************************************************)
(* std::mt19937.  The engine is a deterministic stream of 32-bit words     *)
(* fixed by its seed; an engine is [seed, pos], pos the number of words    *)
(* taken from it so far.  The streams of the model are the periodic ones   *)
(* over two words: word k of seed s is picked by bit k mod SeedBits of s.  *)
(* Every distribution call takes one word of the stream.  TLC evaluates    *)
(* the arguments of an operator when they are first read; the loops that   *)
(* hand an engine on read it first, in a test `rng.pos < 0` that is never  *)
(* true, so that no long chain of pending draws builds up.                 *)
(***************************************************************************)
\* the period of a stream
SeedBits == 6

\* the seeds of the model, opt.seed
MaxSeed == 63

Seeds == 0..MaxSeed

\* the two words a stream is made of: 0xfffffffe and 0x00000001
RawWords == <<u32(65535, 65534), u32(0, 1)>>

RECURSIVE Pow2(_)
Pow2(n) == IF n = 0 THEN 1 ELSE 2 * Pow2(n - 1)

\* std::mt19937 rng(seed)
mt19937(seed) == [seed |-> seed, pos |-> 0]

\* the next word of the stream, rng() without the advance
Peek(rng) == RawWords[((rng.seed \div Pow2(rng.pos % SeedBits)) % 2) + 1]

\* the engine after rng()
Advance(rng) == [rng EXCEPT !.pos = @ + 1]

\* std::uniform_int_distribution<>(a, b)(rng) for a <= b
uniform_int(a, b, rng) == a + Mod32(Peek(rng), b - a + 1)

\* std::uniform_int_distribution<uint32_t>()(rng): the word itself
uniform_u32(rng) == Peek(rng)

\* std::uniform_real_distribution<>(0.0, 1.0)(rng) < 0.33 and < 0.5: the word
\* read as a fraction of 2^32 (0.33 * 2^32 = 21626 * 2^16 + 57671.68)
real_below_033(rng) ==
    LET w == Peek(rng) IN w[1] < 21626 \/ (w[1] = 21626 /\ w[2] <= 57671)

real_below_05(rng) == Peek(rng)[1] < 32768

(***************************************************************************)
(* Expressions.  An expression is a record tagged by its class: Const,     *)
(* WireRef or BinExpr.  A wire name is the pair of an array name and a     *)
(* subscript, "t0[1]" is <<"t0", 1>>.  An evaluation returns a value or    *)
(* throws.                                                                 *)
(***************************************************************************)
Const(v, s) == [k |-> "Const", value |-> v, sym |-> s]

WireRef(n, idx) == [k |-> "WireRef", name |-> n, index |-> idx]

BinExpr(o, v) == [k |-> "BinExpr", op |-> o, ops |-> v]

\* enum class BinOp of the generator's header
BinOps == {"Add", "Xor"}

\* enum class BinOp of ast.hpp
ast_BinOps == {"Add", "Sub", "And", "Or", "Xor"}

tok(o) ==
    CASE o = "Add" -> "+"
      [] o = "Sub" -> "-"
      [] o = "And" -> "&"
      [] o = "Or" -> "|"
      [] o = "Xor" -> "^"

\* a returned uint32_t
Value(v) == [thrown |-> FALSE, what |-> "", v |-> v]

\* an exception that leaves the evaluation
Raise(what) == [thrown |-> TRUE, what |-> what, v |-> Zero32]

RECURSIVE eval(_, _)
RECURSIVE EvalLoop(_, _, _, _, _)
RECURSIVE ast_eval(_, _)
RECURSIVE ast_EvalLoop(_, _, _, _, _)

\* the for loop of BinExpr::eval(values), at index i with accumulator acc
EvalLoop(op, ops, values, acc, i) ==
    IF acc.thrown \/ i > Len(ops) THEN acc
    ELSE LET r == eval(ops[i], values)
         IN  IF r.thrown THEN r
             ELSE EvalLoop(op, ops, values, Value(Apply32(tok(op), acc.v, r.v)), i + 1)

\* BinExpr::eval(values)
BinExpr_eval(op, ops, values) ==
    IF ops = <<>> THEN Value(Zero32)
    ELSE EvalLoop(op, ops, values, eval(ops[1], values), 2)

\* Expr::eval(values) of the three classes
eval(e, values) ==
    CASE e.k = "Const" -> Value(e.value)
      [] e.k = "WireRef" ->
            IF e.index < 0 \/ e.index >= Len(values) THEN Raise("out_of_range")
            ELSE Value(values[e.index + 1])
      [] e.k = "BinExpr" -> BinExpr_eval(e.op, e.ops, values)

\* the for loop of ast.hpp's BinExpr::eval()
ast_EvalLoop(op, ops, undef, acc, i) ==
    IF acc.thrown \/ i > Len(ops) THEN acc
    ELSE LET r == ast_eval(ops[i], undef)
         IN  IF r.thrown THEN r
             ELSE ast_EvalLoop(op, ops, undef, Value(Apply32(tok(op), acc.v, r.v)), i + 1)

\* ast.hpp's BinExpr::eval() with the first operand folded in twice
ast_BinExpr_eval_FrontTwice(op, ops, undef) ==
    IF ops = <<>> THEN Value(undef)
    ELSE ast_EvalLoop(op, ops, undef, ast_eval(ops[1], undef), 1)

\* ast.hpp's BinExpr::eval(); ops.front() of an empty vector is undefined
\* behaviour, its outcome is the word undef
ast_BinExpr_eval(op, ops, undef) ==
    IF ops = <<>> THEN Value(undef)
    ELSE ast_EvalLoop(op, ops, undef, ast_eval(ops[1], undef), 2)

\* ast.hpp's Expr::eval() of the three classes
ast_eval(e, undef) ==
    CASE e.k = "Const" -> Value(e.value)
      [] e.k = "WireRef" -> Raise("logic_error")
      [] e.k = "BinExpr" -> ast_BinExpr_eval(e.op, e.ops, undef)

(***************************************************************************)
(* The loop generator, class Generator.  A statement of the emitted module *)
(* is a record tagged by its class; the text of a CustomStmt is kept as    *)
(* the fields its lambda prints.  A generator object is the record of its  *)
(* fields.  `ub` is what the undefined behaviour of a call makes of it:    *)
(* ub.int is the number a distribution with an inverted range returns,     *)
(* ub.crash tells whether a null dereference ends the process and ub.word  *)
(* is the value it yields otherwise.                                       *)
(***************************************************************************)
\* static inline const std::vector<BinOp> OPS
OPS == <<"Add", "Xor">>

\* a std::shared_ptr that holds nothing
Null == [k |-> "nullptr"]

\* Generator::Generator
Generator(seed, min_s, max_s, min_i, max_i, rand_up) ==
    [rng |-> mt19937(seed), const_data |-> <<>>, logic_trees |-> <<>>,
     N_per_level |-> <<>>, final_logic_tree |-> Null,
     min_start |-> min_s, max_start |-> max_s,
     min_iter |-> min_i, max_iter |-> max_i, random_update |-> rand_up]

\* the loop that folds arr[0], arr[1], ... arr[n-1] into one expression, one
\* operator drawn per step; at step op_idx with the expression acc built so far
RECURSIVE Reduction(_, _, _, _, _)
Reduction(rng, arr, n, acc, op_idx) ==
    IF rng.pos < 0 \/ op_idx >= n THEN [rng |-> rng, e |-> acc]
    ELSE LET random_op == OPS[uniform_int(0, Len(OPS) - 1, rng) + 1]
         IN  Reduction(Advance(rng), arr, n,
                       BinExpr(random_op, <<acc, WireRef(<<arr, op_idx>>, op_idx)>>),
                       op_idx + 1)

\* the loop over k of buildNested with every label counted upwards from
\* start_val, whatever the direction of the loop
RECURSIVE CaseLoop_LabelsUp(_, _, _, _, _)
CaseLoop_LabelsUp(rng, c, k, case_items, level_logic) ==
    IF rng.pos < 0 \/ Len(level_logic) < 0 \/ k >= c.num_iterations
    THEN [rng |-> rng, case_items |-> case_items, level_logic |-> level_logic]
    ELSE LET red == Reduction(rng, c.next_level_arr, c.next_level_iters,
                              WireRef(<<c.next_level_arr, 0>>, 0), 1)
             item == [label |-> c.start_val + k,
                      body |-> <<[k |-> "AssignStmt", lhs |-> <<c.out_base_name, k>>,
                                  rhs |-> red.e]>>]
         IN  CaseLoop_LabelsUp(red.rng, c, k + 1, Append(case_items, item),
                               Append(level_logic, red.e))

\* the loop over k of buildNested that makes the case items and level_logic;
\* c holds the locals of buildNested it reads
RECURSIVE CaseLoop(_, _, _, _, _)
CaseLoop(rng, c, k, case_items, level_logic) ==
    IF rng.pos < 0 \/ Len(level_logic) < 0 \/ k >= c.num_iterations
    THEN [rng |-> rng, case_items |-> case_items, level_logic |-> level_logic]
    ELSE LET red == Reduction(rng, c.next_level_arr, c.next_level_iters,
                              WireRef(<<c.next_level_arr, 0>>, 0), 1)
             label == c.start_val + (IF c.increment THEN k ELSE -k)
             item == [label |-> label,
                      body |-> <<[k |-> "AssignStmt", lhs |-> <<c.out_base_name, k>>,
                                  rhs |-> red.e]>>]
         IN  CaseLoop(red.rng, c, k + 1, Append(case_items, item),
                      Append(level_logic, red.e))

\* Generator::buildNested: the generator after the call and the statement
RECURSIVE buildNested(_, _, _, _, _)
buildNested(g, level, maxDepth, out_base_name, ub) ==
    LET var == "g" \o ToString(level)
        lbl == "lvl" \o ToString(level)
        start_val == IF g.min_start <= g.max_start
                     THEN uniform_int(g.min_start, g.max_start, g.rng)
                     ELSE ub.int
        rng1 == Advance(g.rng)
        num_iterations == uniform_int(g.min_iter, g.max_iter, rng1)
        rng2 == Advance(rng1)
        N == IF level < Len(g.N_per_level)
             THEN [g.N_per_level EXCEPT ![level + 1] = num_iterations]
             ELSE g.N_per_level
        increment == IF g.random_update THEN Mod32(Peek(rng2), 2) = 0 ELSE TRUE
        rng3 == IF g.random_update THEN Advance(rng2) ELSE rng2
        \* var = var + 1 or var = var - 1
        update_expr == [var |-> var, step |-> IF increment THEN 1 ELSE -1]
        \* var < bound or var > bound
        cond_expr == IF increment
                     THEN [var |-> var, rel |-> "<", bound |-> start_val + num_iterations]
                     ELSE [var |-> var, rel |-> ">", bound |-> start_val - num_iterations]
        \* var - start_val or start_val - var
        index == [var |-> var, start |-> start_val,
                  form |-> IF increment THEN "var-start" ELSE "start-var"]
        g3 == [g EXCEPT !.rng = rng3, !.N_per_level = N]
        for(gen, body) ==
            [g |-> gen,
             stmt |-> [k |-> "GenerateFor", var |-> var, label |-> lbl,
                       start |-> start_val, condition |-> cond_expr,
                       update_expr |-> update_expr, body |-> body]]
    IN  IF level >= maxDepth
        THEN for(g3, <<[k |-> "Instance", mod |-> "const_block", inst |-> "inst",
                        params |-> <<[port |-> "VALUE", of |-> "CONSTS0",
                                      index |-> index]>>,
                        conns |-> <<[port |-> "w",
                                     net |-> <<out_base_name, index>>]>>]>>)
        ELSE LET next_level_arr == "t" \o ToString(level + 1)
                 inner == buildNested(g3, level + 1, maxDepth, next_level_arr, ub)
                 next_level_iters == inner.g.N_per_level[level + 2]
                 cl == CaseLoop(inner.g.rng,
                                [num_iterations |-> num_iterations,
                                 next_level_arr |-> next_level_arr,
                                 next_level_iters |-> next_level_iters,
                                 start_val |-> start_val, increment |-> increment,
                                 out_base_name |-> out_base_name],
                                0, <<>>, <<>>)
                 g4 == [inner.g EXCEPT
                            !.rng = cl.rng,
                            !.logic_trees = Append(@, cl.level_logic)]
             IN  for(g4, <<[k |-> "CustomStmt", what |-> "wire",
                            name |-> next_level_arr, last |-> next_level_iters - 1],
                           inner.stmt,
                           [k |-> "GenerateCase", sel |-> var,
                            cases |-> cl.case_items]>>)

\* the inner loop of calculateExpectedResult: the values of one level
RECURSIVE LevelValues(_, _, _, _)
LevelValues(logic_for_this_level, current_level_values, k, next_level_values) ==
    IF k > Len(logic_for_this_level) THEN [thrown |-> FALSE, values |-> next_level_values]
    ELSE LET val == eval(logic_for_this_level[k], current_level_values)
         IN  IF val.thrown THEN [thrown |-> TRUE, values |-> <<>>]
             ELSE LevelValues(logic_for_this_level, current_level_values, k + 1,
                              Append(next_level_values, val.v))

\* the outer loop of calculateExpectedResult, at logic_trees[i]
RECURSIVE AllLevels(_, _, _)
AllLevels(logic_trees, i, current_level_values) ==
    IF i > Len(logic_trees) THEN [thrown |-> FALSE, values |-> current_level_values]
    ELSE LET next == LevelValues(logic_trees[i], current_level_values, 1, <<>>)
         IN  IF next.thrown THEN next
             ELSE AllLevels(logic_trees, i + 1, next.values)

\* Generator::calculateExpectedResult; to evaluate through the null
\* final_logic_tree is undefined behaviour
calculateExpectedResult(g, ub) ==
    LET cur == AllLevels(g.logic_trees, 1, g.const_data)
    IN  IF cur.thrown THEN Raise("out_of_range")
        ELSE IF g.final_logic_tree.k = "nullptr"
             THEN (IF ub.crash THEN Raise("SIGSEGV") ELSE Value(ub.word))
             ELSE eval(g.final_logic_tree, cur.values)

\* the port declaration "output [31:0] <name>"
OutputPort(n) == [dir |-> "output", msb |-> 31, lsb |-> 0, name |-> n]

\* module const_block #(parameter VALUE=32'h0)(output [31:0] w);
\*   assign w = VALUE;
const_block ==
    [name |-> "const_block", params |-> <<"VALUE">>, ports |-> <<OutputPort("w")>>,
     body |-> <<[k |-> "AssignStmt", lhs |-> <<"w">>,
                 rhs |-> [k |-> "Param", name |-> "VALUE"]]>>]

\* the loop of make that draws the constants, at j
RECURSIVE DrawConsts(_, _, _, _)
DrawConsts(rng, const_data, j, base_N) ==
    IF rng.pos < 0 \/ Len(const_data) < 0 \/ j >= base_N
    THEN [rng |-> rng, const_data |-> const_data]
    ELSE DrawConsts(Advance(rng), Append(const_data, uniform_u32(rng)), j + 1, base_N)

\* Generator::make from the call of calculateExpectedResult on: the outcome
\* of the call, g1 the generator and expected_result what the call returned
MakeFile(g1, outer_loop_stmts, top_N, base_N, topName, idx, expected_result) ==
    IF expected_result.thrown
    THEN [kind |-> "throw", what |-> expected_result.what, g |-> g1,
          fn |-> "", text |-> <<>>, value |-> Zero32]
    ELSE [kind |-> "result", what |-> "", g |-> g1,
          fn |-> "gen_" \o ToString(idx) \o ".v",
          text |-> <<const_block,
                     [name |-> topName, params |-> <<>>,
                      ports |-> <<OutputPort("result")>>,
                      body |-> <<[k |-> "CustomStmt", what |-> "localparam",
                                  name |-> "CONSTS0", last |-> base_N * 32 - 1,
                                  items |-> [n \in 1..base_N |->
                                      hex32(g1.const_data[base_N + 1 - n])]],
                                 [k |-> "CustomStmt", what |-> "wire",
                                  name |-> "t0", last |-> top_N - 1],
                                 [k |-> "CustomStmt", what |-> "generate",
                                  stmt |-> outer_loop_stmts]>>
                               \o (IF top_N > 0
                                   THEN <<[k |-> "AssignStmt", lhs |-> <<"result">>,
                                           rhs |-> g1.final_logic_tree]>>
                                   ELSE <<>>)]>>,
          value |-> expected_result.v]

\* Generator::make from the constants on; built is what buildNested returned
MakeBuilt(built, maxDepth, topName, idx, ub) ==
    LET top_N == built.g.N_per_level[1]
        base_N == built.g.N_per_level[maxDepth + 1]
        cd == DrawConsts(built.g.rng, built.g.const_data, 0, base_N)
        red == Reduction(cd.rng, "t0", top_N, WireRef(<<"t0", 0>>, 0), 1)
        g1 == [built.g EXCEPT
                  !.const_data = cd.const_data,
                  !.logic_trees = [n \in 1..Len(@) |-> @[Len(@) + 1 - n]],
                  !.rng = IF top_N > 0 THEN red.rng ELSE cd.rng,
                  !.final_logic_tree = IF top_N > 0 THEN red.e ELSE Null]
    IN  MakeFile(g1, built.stmt, top_N, base_N, topName, idx,
                 calculateExpectedResult(g1, ub))

\* Generator::make after its four resets, from the generator g0 they leave
MakeFrom(g0, topName, idx, depth, ub) ==
    LET maxDepth == IF depth > 0 THEN depth - 1 ELSE 0
    IN  MakeBuilt(buildNested(g0, 0, maxDepth, "t0", ub), maxDepth, topName, idx, ub)

\* Generator::make without const_data.clear()
make_KeepsConstData(g, topName, idx, depth, ub) ==
    MakeFrom([g EXCEPT !.logic_trees = <<>>, !.final_logic_tree = Null,
                       !.N_per_level = [l \in 1..(depth + 1) |-> 0]],
             topName, idx, depth, ub)

\* Generator::make: the outcome of the call, the generator after it (g), the
\* file it wrote as the sequence of its modules (text) and the oracle (value)
make(g, topName, idx, depth, ub) ==
    MakeFrom([g EXCEPT !.const_data = <<>>, !.logic_trees = <<>>,
                       !.final_logic_tree = Null,
                       !.N_per_level = [l \in 1..(depth + 1) |-> 0]],
             topName, idx, depth, ub)

(***************************************************************************)
(* The hierarchy generator, class HierarchyGen.  A dotted name is the      *)
(* sequence of its segments and its dots: "top.top_c0.out" is              *)
(* <<"top", ".", "top_c0", ".", "out">> and a leading ".." is two dots.    *)
(* No segment holds a dot, so the prefix tests and searches of the code    *)
(* fall on the boundaries of these tokens.  A tree node is a record of its *)
(* fields.  The model covers the generator with cfg_.aliasStmt off and     *)
(* cfg_.bigGenProb at its default 0.5.  A node with a single leaf below it draws its       *)
(* operand count from the inverted range [2, 1], which is undefined        *)
(* behaviour: ub.crash tells whether the process ends there, ub.int is the *)
(* count drawn otherwise (a count beyond the leaves reads past the vector  *)
(* and is taken as a crash as well, as is front() of an empty vector).     *)
(***************************************************************************)
\* constexpr char ROOT_NAME[]
ROOT_NAME == "top"

\* p.rfind(prefix, 0) == 0
StartsWith(p, prefix) ==
    Len(p) >= Len(prefix) /\ SubSeq(p, 1, Len(prefix)) = prefix

\* p.erase(0, n), also p.substr(n)
Erase(p, n) == SubSeq(p, n + 1, Len(p))

\* p.find('.', k): the 0-based position of the first dot at or after k, Len(p)
\* when there is none (npos)
RECURSIVE FindDot(_, _)
FindDot(p, k) ==
    IF k >= Len(p) THEN Len(p)
    ELSE IF p[k + 1] = "." THEN k ELSE FindDot(p, k + 1)

\* p.rfind('.'): the position of the last dot, -1 when there is none
RECURSIVE RFindDot(_, _)
RFindDot(p, k) ==
    IF k < 0 THEN -1 ELSE IF p[k + 1] = "." THEN k ELSE RFindDot(p, k - 1)

\* the two while loops of normalised
RECURSIVE StripRoot(_)
StripRoot(p) ==
    IF StartsWith(p, <<ROOT_NAME, ".">>) THEN StripRoot(Erase(p, 2)) ELSE p

RECURSIVE StripUp(_)
StripUp(p) ==
    IF StartsWith(p, <<".", ".">>)
    THEN LET firstDot == FindDot(p, 2)
         IN  StripUp(Erase(p, IF firstDot = Len(p) THEN Len(p) ELSE firstDot + 1))
    ELSE p

\* normalised that drops a leading $root.tb. after, not before, the loop
\* that drops top.
normalised_RootLast(p) ==
    LET q == StripUp(StripRoot(p))
    IN  IF StartsWith(q, <<"$root", ".", "tb", ".">>) THEN Erase(q, 4) ELSE q

\* normalised
normalised(p) ==
    StripUp(StripRoot(IF StartsWith(p, <<"$root", ".">>) THEN Erase(p, 2) ELSE p))

\* the position in `children` of the first child named head, 0 when none
ChildNamed(here, head) ==
    IF \E c \in 1..Len(here.children) : here.children[c].name = head
    THEN CHOOSE c \in 1..Len(here.children) :
            /\ here.children[c].name = head
            /\ \A b \in 1..(c - 1) : here.children[b].name # head
    ELSE 0

\* leaf_value
RECURSIVE leaf_value(_, _)
leaf_value(here, dotted) ==
    IF dotted = <<>> \/ dotted = <<"out">> THEN here.const_val
    ELSE LET dot == FindDot(dotted, 0)
             c == ChildNamed(here, dotted[1])
         IN  IF dot = 0 \/ c = 0 THEN Zero32
             ELSE IF dot = Len(dotted) THEN here.children[c].const_val
             ELSE leaf_value(here.children[c], Erase(dotted, dot + 1))

\* HierarchyGen::set_leaf that finds no child to update
set_leaf_NoChild(here, dotted, nv) == here

\* HierarchyGen::set_leaf: the node `here` after the call
RECURSIVE set_leaf(_, _, _)
set_leaf(here, dotted, nv) ==
    LET dot == FindDot(dotted, 0)
        c == IF dotted = <<>> \/ dot = 0 THEN 0 ELSE ChildNamed(here, dotted[1])
    IN  IF c = 0 THEN here
        ELSE IF dot = Len(dotted)
             THEN [here EXCEPT !.children[c].const_val = nv]
             ELSE [here EXCEPT
                      !.children[c] = set_leaf(@, Erase(dotted, dot + 1), nv)]

\* collect_leaf_paths: `out` after the call
RECURSIVE collect_leaf_paths(_, _, _)
\* the loop of collect_leaf_paths that stops before the last child
RECURSIVE CollectChildren_BeforeLast(_, _, _, _)
CollectChildren_BeforeLast(prefix, node, out, c) ==
    IF c >= Len(node.children) THEN out
    ELSE CollectChildren_BeforeLast(prefix, node,
             collect_leaf_paths(prefix \o <<node.name, ".">>, node.children[c], out),
             c + 1)

\* the loop of collect_leaf_paths over the children of node, at child c
RECURSIVE CollectChildren(_, _, _, _)
CollectChildren(prefix, node, out, c) ==
    IF c > Len(node.children) THEN out
    ELSE CollectChildren(prefix, node,
             collect_leaf_paths(prefix \o <<node.name, ".">>, node.children[c], out),
             c + 1)

collect_leaf_paths(prefix, node, out) ==
    IF node.children = <<>> THEN Append(out, prefix \o <<node.name, ".", "out">>)
    ELSE CollectChildren(prefix, node, out, 1)

\* the loop designs at the leaves of a hierarchy have at most this many
\* iterations per level (bigGen_ is constructed with the default max_iter,
\* 16)
MaxBigIter == 4

\* HierarchyGen::HierarchyGen
HierarchyGen(seed, c) ==
    [rng |-> mt19937(seed), seed_ |-> seed, cfg_ |-> c, expected_ |-> Zero32,
     bigGen_ |-> Generator(seed, 0, 0, 2, MaxBigIter, TRUE),
     dumpedMods_ |-> {}, lastGenModule_ |-> Null]

\* Generator::makeModule(name, depth): the loop generator makes a design
\* whose top module is named nm; the generator after the call, that module
\* and the oracle value of the design
makeModule(g, nm, depth) ==
    LET made == make(g, nm, 0, depth, [int |-> 0, crash |-> TRUE, word |-> Zero32])
    IN  [g |-> made.g, mod |-> made.text[2], value |-> made.value]

\* build_tree at a leaf that std::bernoulli_distribution made a loop design
BigLeaf(rng, nm, made) ==
    [rng |-> rng, big |-> made.g,
     node |-> [name |-> nm, children |-> <<>>, const_val |-> made.value,
               bigGen |-> TRUE, bigMod |-> made.mod]]

\* HierarchyGen::build_tree: the engine (rng) and the loop generator bigGen_
\* (big) after the call, and the node
RECURSIVE build_tree(_, _, _, _, _, _)
RECURSIVE BuildChildren(_, _, _, _, _, _, _, _)
BuildChildren(rng, big, cfg, nm, depth, maxDepth, i, nc) ==
    IF rng.pos < 0 \/ big.rng.pos < 0 \/ i >= nc
    THEN [rng |-> rng, big |-> big, children |-> <<>>]
    ELSE LET kid == build_tree(rng, big, cfg, nm \o "_c" \o ToString(i),
                               depth + 1, maxDepth)
             rest == BuildChildren(kid.rng, kid.big, cfg, nm, depth, maxDepth,
                                   i + 1, nc)
         IN  [rng |-> rest.rng, big |-> rest.big,
              children |-> <<kid.node>> \o rest.children]

build_tree(rng, big, cfg, nm, depth, maxDepth) ==
    IF depth = maxDepth
    THEN IF cfg.enableBigGen /\ real_below_05(rng)
         THEN BigLeaf(Advance(rng), nm, makeModule(big, nm, cfg.depth))
         ELSE LET rng1 == IF cfg.enableBigGen THEN Advance(rng) ELSE rng
              IN  [rng |-> Advance(rng1), big |-> big,
                   node |-> [name |-> nm, children |-> <<>>,
                             const_val |-> uniform_u32(rng1), bigGen |-> FALSE,
                             bigMod |-> Null]]
    ELSE LET nc == uniform_int(cfg.minChild, cfg.maxChild, rng)
             kids == BuildChildren(Advance(rng), big, cfg, nm, depth, maxDepth, 0, nc)
         IN  [rng |-> kids.rng, big |-> kids.big,
              node |-> [name |-> nm, children |-> kids.children,
                        const_val |-> Zero32, bigGen |-> FALSE, bigMod |-> Null]]

\* std::shuffle(leaves.begin(), leaves.end(), rng_): at 0-based position i,
\* swap leaves[i] with leaves[j], j drawn from 0..i
RECURSIVE shuffle(_, _, _)
shuffle(rng, leaves, i) ==
    IF i >= Len(leaves) THEN [rng |-> rng, leaves |-> leaves]
    ELSE LET j == uniform_int(0, i, rng)
         IN  shuffle(Advance(rng),
                     [leaves EXCEPT ![i + 1] = leaves[j + 1], ![j + 1] = leaves[i + 1]],
                     i + 1)

\* the lambda qualify of emit_module: the engine after the call and the name
qualify(rng, cfg, depth, p) ==
    IF cfg.rootPrefix /\ real_below_033(rng)
    THEN [rng |-> Advance(rng),
          s |-> <<"$root", ".", "tb", ".", ROOT_NAME, ".">>
                \o (IF StartsWith(p, <<ROOT_NAME, ".">>) THEN Erase(p, 2) ELSE p)]
    ELSE LET rng1 == IF cfg.rootPrefix THEN Advance(rng) ELSE rng
         IN  IF cfg.relativeUp /\ depth >= 1 /\ real_below_05(rng1)
             THEN [rng |-> Advance(rng1),
                   s |-> <<".", ".">> \o Erase(p, FindDot(p, 0) + 1)]
             ELSE [rng |-> IF cfg.relativeUp /\ depth >= 1 THEN Advance(rng1) ELSE rng1,
                   s |-> p]

\* the loop of emit_module that fills opsTxt and opsVal, at i
RECURSIVE Operands(_, _, _, _, _, _, _)
Operands(rng, cfg, depth, n, leaves, i, nOps) ==
    IF rng.pos < 0 \/ i >= nOps THEN [rng |-> rng, opsTxt |-> <<>>, opsVal |-> <<>>]
    ELSE LET q == qualify(rng, cfg, depth, leaves[i + 1])
             rest == Operands(q.rng, cfg, depth, n, leaves, i + 1, nOps)
         IN  [rng |-> rest.rng,
              opsTxt |-> <<[k |-> "name", path |-> q.s]>> \o rest.opsTxt,
              opsVal |-> <<leaf_value(n, normalised(leaves[i + 1]))>> \o rest.opsVal]

\* the loop of emit_module that folds opsVal into acc, at i
RECURSIVE FoldOps(_, _, _, _)
FoldOps(opSym, opsVal, acc, i) ==
    IF i > Len(opsVal) THEN acc
    ELSE FoldOps(opSym, opsVal, Apply32(opSym, acc, opsVal[i]), i + 1)

\* std::to_string(v), the decimal digits of the uint32_t v
RECURSIVE to_string(_)
to_string(v) ==
    LET low == (v[1] % 10) * Half + v[2]
        q == u32(v[1] \div 10, low \div 10)
    IN  IF q = Zero32 THEN <<low % 10>> ELSE Append(to_string(q), low % 10)

\* const char OPS[] of emit_module
OpSyms == <<"+", "|", "&", "^">>

\* HierarchyGen::emit_module: the engine after the call, the Module built
\* (mod), the modules written in the order of the text (text), and the value.
\* The operators below are its parts in the order of the code, each given what
\* the parts before it computed.
RECURSIVE emit_module(_, _, _, _, _)

\* what emit_module leaves where the process ends inside it
Crashed(rng, n) ==
    [rng |-> rng, mod |-> Null, text |-> <<>>, value |-> Zero32, crash |-> TRUE]

\* auto m = std::make_shared<Module>() with its name and its one port
NewModule(n, body) ==
    [name |-> n.name, params |-> <<>>, ports |-> <<OutputPort("out")>>,
     body |-> body]

\* emit_module for a leaf
emit_leaf(rng, cfg, n) ==
    LET PORT == "out"
    IN  IF n.bigGen
        THEN [rng |-> rng,
              mod |-> NewModule(n, <<[k |-> "Instance", mod |-> n.bigMod.name,
                                      inst |-> n.name \o "_inst", params |-> <<>>,
                                      conns |-> <<<<"result", PORT>>>>]>>),
              text |-> <<const_block, n.bigMod>>,
              value |-> n.const_val, crash |-> FALSE]
        ELSE IF cfg.defparam
        THEN [rng |-> rng, mod |-> NewModule(n, <<>>),
              text |-> <<[name |-> n.name,
                          params |-> <<[name |-> "VALUE",
                                        default |-> hex32(n.const_val)]>>,
                          ports |-> <<OutputPort(PORT)>>,
                          body |-> <<[k |-> "AssignStmt", lhs |-> <<PORT>>,
                                      rhs |-> [k |-> "Param", name |-> "VALUE"]]>>]>>,
              value |-> n.const_val, crash |-> FALSE]
        ELSE LET leaf == NewModule(n, <<[k |-> "AssignStmt", lhs |-> <<PORT>>,
                                         rhs |-> Const(n.const_val,
                                                       <<"32'd", to_string(n.const_val)>>)]>>)
             IN  [rng |-> rng, mod |-> leaf, text |-> <<leaf>>, value |-> n.const_val,
                  crash |-> FALSE]

\* emit_module from the optional literal on: the operator, the assign, the
\* fold; ch is what the loop over the children left, ops what the operand
\* loop left, dp whether the defparam is written
emit_assign(n, ch, dp, inst_path, nv, ops) ==
    LET PORT == "out"
        insts == [c \in 1..Len(n.children) |->
                     [k |-> "Instance", mod |-> n.children[c].name,
                      inst |-> n.children[c].name,
                      params |-> <<>>, conns |-> <<>>]]
        coin == uniform_int(0, 1, ops.rng)
        rng4 == Advance(ops.rng)
        lit == uniform_u32(rng4)
        rng5 == IF coin # 0 THEN Advance(rng4) ELSE rng4
        opsTxt == ops.opsTxt \o
                  (IF coin # 0
                   THEN <<[k |-> "literal", path |-> <<"32'd", to_string(lit)>>]>>
                   ELSE <<>>)
        opsVal == ops.opsVal \o (IF coin # 0 THEN <<lit>> ELSE <<>>)
        opSym == OpSyms[uniform_int(0, 3, rng5) + 1]
        mod == NewModule(n, insts
                 \o (IF dp
                     THEN <<[k |-> "CustomStmt", what |-> "defparam",
                             path |-> inst_path \o <<".", "VALUE">>,
                             value |-> hex32(nv)]>>
                     ELSE <<>>)
                 \o <<[k |-> "CustomStmt", what |-> "assign",
                       lhs |-> PORT, opSym |-> opSym, rhs |-> opsTxt]>>)
    IN  IF opsTxt = <<>> THEN Crashed(ops.rng, n)
        ELSE [rng |-> Advance(rng5), mod |-> mod,
              text |-> <<mod>> \o ch.childTxt,
              value |-> FoldOps(opSym, opsVal, opsVal[1], 2), crash |-> FALSE]

\* emit_module from the defparam to the operand loop; sh is what std::shuffle
\* left
emit_operands(cfg, n, depth, ch, sh, ub) ==
    LET isRoot == depth = 0
        leaves == sh.leaves
        dp == isRoot /\ cfg.defparam /\ leaves # <<>>
        tgt == leaves[1]
        nv == uniform_u32(sh.rng)
        lastDot == RFindDot(tgt, Len(tgt) - 1)
        inst_path == IF lastDot < 0 THEN tgt ELSE SubSeq(tgt, 1, lastDot)
        n2 == IF dp THEN set_leaf(n, normalised(inst_path), nv) ELSE n
        rng2 == IF dp THEN Advance(sh.rng) ELSE sh.rng
        nOps == IF Len(leaves) >= 2 THEN uniform_int(2, Len(leaves), rng2)
                ELSE ub.int
    IN  IF Len(leaves) < 2 /\ (ub.crash \/ nOps > Len(leaves))
        THEN Crashed(rng2, n)
        ELSE emit_assign(n, ch, dp, inst_path, nv,
                         Operands(Advance(rng2), cfg, depth, n2, leaves, 0, nOps))

\* the loop of emit_module over the children of n, at child c
RECURSIVE EmitChildren(_, _, _, _, _, _)
EmitChildren(rng, cfg, n, depth, c, ub) ==
    IF rng.pos < 0 \/ c > Len(n.children)
    THEN [rng |-> rng, childTxt |-> <<>>, crash |-> FALSE]
    ELSE LET ce == emit_module(rng, cfg, n.children[c], depth + 1, ub)
             rest == EmitChildren(ce.rng, cfg, n, depth, c + 1, ub)
         IN  IF ce.crash THEN [rng |-> ce.rng, childTxt |-> <<>>, crash |-> TRUE]
             ELSE [rng |-> rest.rng, childTxt |-> ce.text \o rest.childTxt,
                   crash |-> rest.crash]

\* emit_module from the collection of the leaf paths on
emit_reduction(cfg, n, depth, ch, ub) ==
    IF ch.crash THEN Crashed(ch.rng, n)
    ELSE emit_operands(cfg, n, depth, ch,
                       shuffle(ch.rng, collect_leaf_paths(<<>>, n, <<>>), 1), ub)

emit_module(rng, cfg, n, depth, ub) ==
    IF n.children = <<>> THEN emit_leaf(rng, cfg, n)
    ELSE emit_reduction(cfg, n, depth, EmitChildren(rng, cfg, n, depth, 1, ub), ub)

\* what dumpedMods_ makes of the text: of the modules written under it
\* (const_block and the loop designs, whose names no other module has) the
\* first of a name is written and no later one; done is the text kept so far
RECURSIVE DumpedOnce(_, _, _)
DumpedOnce(text, i, done) ==
    IF i > Len(text) THEN done
    ELSE DumpedOnce(text, i + 1,
                    IF \E d \in 1..Len(done) : done[d].name = text[i].name
                    THEN done ELSE Append(done, text[i]))

\* HierarchyGen::write once the root was emitted
Written(h, fileName, emitted) ==
    IF emitted.crash
    THEN [kind |-> "throw", what |-> "SIGSEGV",
          g |-> [h EXCEPT !.rng = emitted.rng, !.dumpedMods_ = {}],
          fn |-> "", text |-> <<>>, value |-> Zero32]
    ELSE [kind |-> "result", what |-> "",
          g |-> [h EXCEPT !.rng = emitted.rng, !.dumpedMods_ = {},
                          !.expected_ = emitted.value,
                          !.lastGenModule_ = emitted.mod],
          fn |-> fileName, text |-> DumpedOnce(emitted.text, 1, <<>>),
          value |-> emitted.value]

\* HierarchyGen::write once the tree was built
WriteTree(h, fileName, root, ub) ==
    Written([h EXCEPT !.bigGen_ = root.big], fileName,
            emit_module(root.rng, h.cfg_, root.node, 0, ub))

\* HierarchyGen::write: the outcome of the call, in the form of make's
write(h, fileName, ub) ==
    WriteTree(h, fileName, build_tree(h.rng, h.bigGen_, h.cfg_, ROOT_NAME, 0,
                                      h.cfg_.depth), ub)

(***************************************************************************)
(* State.                                                                  *)
(***************************************************************************)
VARIABLES
    \* ToolSpec: one call of Tool::run
    t_pc,           \* "idle" before the call, "returned" after it
    t_tool,         \* the backend called, 0 before the call
    t_env,          \* the environment of the call
    t_rI, t_rM,     \* CompareSim: the outcomes of its two children
    t_out,          \* the outcome of the call
    \* Spec: main()
    opt_iter,       \* opt.iter
    opt_tool,       \* opt.tool
    opt_emit_only,  \* opt.emit_only
    pc,             \* where main() stands
    i,              \* the iteration index
    tix,            \* the position in `tools` of the tool to run next
    golden,         \* the oracle value of the iteration
    worker,         \* the std::async task: "idle", "running" or "finished"
    wout,           \* what the task left in the future's shared state
    child,          \* CompareSim: the outcomes of the children of that run
    timed_out,      \* wait_for returned future_status::timeout for this run
    res,            \* ToolResult res
    crash_cnt,
    mismatch_cnt,
    timeout_cnt,
    exit_code,      \* the value main() returned, -1 before it returns
    cwd,            \* fs::current_path(), as the folders below root_cwd
    oldCwd,         \* fs::path oldCwd of the loop body
    \* GenSpec: the generator object of main() and the calls made on it
    g_pc,           \* "idle", "ready", "made" or "terminated"
    g_cfg,          \* the options the generator was constructed from
    g_gen,          \* the generator object
    g_calls,        \* the number of make/write calls made so far
    g_out,          \* the outcome of the last call
    g_tb,           \* the testbench a backend wrote for the last file
    \* ExprSpec: one evaluation of a BinExpr
    e_pc,           \* "idle", "built" or "evaluated"
    e_hdr,          \* the header the expression classes come from
    e_expr,         \* the BinExpr
    e_out           \* what its eval returned or threw

tvars == <<t_pc, t_tool, t_env, t_rI, t_rM, t_out>>

dvars ==
    <<opt_iter, opt_tool, opt_emit_only, pc, i, tix, golden, worker, wout,
      child, timed_out, res, crash_cnt, mismatch_cnt, timeout_cnt, exit_code,
      cwd, oldCwd>>

gvars == <<g_pc, g_cfg, g_gen, g_calls, g_out, g_tb>>

evars == <<e_pc, e_hdr, e_expr, e_out>>

vars == <<tvars, dvars, gvars, evars>>

\* no call made yet, no testbench written yet
NoOutcome == [kind |-> "none", what |-> "", fn |-> "", text |-> <<>>, value |-> Zero32]

NoTB == [module |-> "", dut |-> "", inst |-> "", port |-> ""]

\* the generator variables where no generator is modelled
GenIdle ==
    /\ g_pc = "idle"
    /\ g_cfg = [hier |-> FALSE]
    /\ g_gen = Null
    /\ g_calls = 0
    /\ g_out = NoOutcome
    /\ g_tb = NoTB

\* the expression variables where no evaluation is modelled
ExprIdle ==
    /\ e_pc = "idle"
    /\ e_hdr = ""
    /\ e_expr = Null
    /\ e_out = Value(Zero32)

(***************************************************************************)
(* ToolSpec: one call of Tool::run.                                        *)
(***************************************************************************)
ToolIdle ==
    /\ t_pc = "idle"
    /\ t_tool = 0
    /\ t_env = NoEnv
    /\ t_rI = NoRun
    /\ t_rM = NoRun
    /\ t_out = NoRun

\* main() before its loop, with the options given
MainStart(n, t, e) ==
    /\ opt_iter = n
    /\ opt_tool = t
    /\ opt_emit_only = e
    /\ pc = "loop"
    /\ i = 0
    /\ tix = 1
    /\ golden = 0
    /\ worker = "idle"
    /\ wout = NoRun
    /\ child = <<NoRun, NoRun>>
    /\ timed_out = FALSE
    /\ res = NoRun
    /\ crash_cnt = 0
    /\ mismatch_cnt = 0
    /\ timeout_cnt = 0
    /\ exit_code = -1
    /\ cwd = <<>>
    /\ oldCwd = <<>>

Call(t, env, out) ==
    /\ t_pc' = "returned"
    /\ t_tool' = t
    /\ t_env' = env
    /\ t_out' = out
    /\ UNCHANGED <<t_rI, t_rM>>
    /\ UNCHANGED <<dvars, gvars, evars>>

QuartusCall ==
    /\ t_pc = "idle"
    /\ \E env \in Envs(QuartusSteps) : Call(1, env, QuartusTool_run(env))

QuartusProCall ==
    /\ t_pc = "idle"
    /\ \E env \in Envs(QuartusProSteps) : Call(2, env, QuartusProTool_run(env))

VivadoCall ==
    /\ t_pc = "idle"
    /\ \E env \in Envs(VivadoSteps) : Call(3, env, VivadoTool_run(env))

IcarusCall ==
    /\ t_pc = "idle"
    /\ \E env \in Envs(IcarusSteps) : Call(4, env, IcarusTool_run(env))

ModelSimCall ==
    /\ t_pc = "idle"
    /\ \E env \in Envs(ModelSimSteps) : Call(5, env, ModelSimOnlyTool_run(env))

CompareSimCall ==
    /\ t_pc = "idle"
    /\ \E c \in CompareSimChildren :
        /\ t_pc' = "returned"
        /\ t_tool' = 6
        /\ t_rI' = c[1]
        /\ t_rM' = c[2]
        /\ t_out' = CompareSimTool_run(c[1], c[2])
        /\ UNCHANGED t_env
    /\ UNCHANGED <<dvars, gvars, evars>>

ToolInit == ToolIdle /\ MainStart(0, 7, FALSE) /\ GenIdle /\ ExprIdle

ToolNext ==
    \/ IcarusCall
    \/ ModelSimCall
    \/ QuartusCall
    \/ QuartusProCall
    \/ VivadoCall
    \/ CompareSimCall

ToolSpec == ToolInit /\ [][ToolNext]_vars

(***************************************************************************)
(* Spec: main().                                                           *)
(***************************************************************************)
Init ==
    /\ ToolIdle
    /\ GenIdle
    /\ ExprIdle
    /\ \E n \in 0..MaxIter, t \in ToolSelectors, e \in BOOLEAN : MainStart(n, t, e)

\* fs::path runDir = sess.next(): the folder of iteration n below the
\* session's, relative to the directory the session was made in
RunDir(n) == <<"build", "session", n>>

\* for (i < opt.iter): take the next run folder, keep the current directory
\* in oldCwd and enter the folder
IterBegin ==
    /\ pc = "loop"
    /\ i < opt_iter
    /\ oldCwd' = cwd
    /\ cwd' = cwd \o RunDir(i)
    /\ pc' = "gen"
    /\ UNCHANGED <<opt_iter, opt_tool, opt_emit_only, i, tix, golden, worker, wout,
                   child, timed_out, res, crash_cnt, mismatch_cnt, timeout_cnt,
                   exit_code>>
    /\ UNCHANGED <<tvars, gvars, evars>>

\* the loop body up to its tools with the emit-only branch leaving the
\* current directory where the generation left it
GenerateRtl_EmitStaysInRunDir ==
    /\ pc = "gen"
    /\ \E g \in 0..MaxGolden, thrown \in BOOLEAN :
        IF thrown
        THEN /\ pc' = "terminated"
             /\ UNCHANGED <<golden, i, tix, cwd>>
        ELSE IF opt_emit_only
        THEN /\ golden' = 0
             /\ i' = i + 1
             /\ pc' = "loop"
             /\ UNCHANGED <<tix, cwd>>
        ELSE /\ cwd' = oldCwd
             /\ golden' = g
             /\ i' = i
             /\ pc' = "tools"
             /\ tix' = 1
    /\ UNCHANGED <<opt_iter, opt_tool, opt_emit_only, worker, wout, child,
                   timed_out, res, crash_cnt, mismatch_cnt, timeout_cnt, exit_code,
                   oldCwd>>
    /\ UNCHANGED <<tvars, gvars, evars>>

\* the loop body from the generation to its tools: the generator writes the
\* design and returns its oracle value, or an exception leaves it, which
\* nothing catches; the current directory is set back to oldCwd; in
\* emit-only mode the generator is called again for the file to emit, the
\* bar ticks and the loop continues with the next iteration (golden, local
\* to the body, is gone then)
GenerateRtl ==
    /\ pc = "gen"
    /\ \E g \in 0..MaxGolden, thrown \in BOOLEAN :
        IF thrown
        THEN /\ pc' = "terminated"
             /\ UNCHANGED <<golden, i, tix, cwd>>
        ELSE IF opt_emit_only
        THEN /\ cwd' = oldCwd
             /\ golden' = 0
             /\ i' = i + 1
             /\ pc' = "loop"
             /\ tix' = tix
        ELSE /\ cwd' = oldCwd
             /\ golden' = g
             /\ i' = i
             /\ pc' = "tools"
             /\ tix' = 1
    /\ UNCHANGED <<opt_iter, opt_tool, opt_emit_only, worker, wout, child,
                   timed_out, res, crash_cnt, mismatch_cnt, timeout_cnt, exit_code,
                   oldCwd>>
    /\ UNCHANGED <<tvars, gvars, evars>>

\* for (auto& t : tools): std::async(std::launch::async, t->run(...))
ToolLaunch ==
    /\ pc = "tools"
    /\ tix <= Len(tools(opt_tool))
    /\ worker' = "running"
    /\ wout' = NoRun
    /\ child' = <<NoRun, NoRun>>
    /\ timed_out' = FALSE
    /\ pc' = "wait"
    /\ UNCHANGED <<opt_iter, opt_tool, opt_emit_only, i, tix, golden, res,
                   crash_cnt, mismatch_cnt, timeout_cnt, exit_code>>
    /\ UNCHANGED <<cwd, oldCwd, tvars, gvars, evars>>

\* the worker thread: Tool::run returns or throws, the future becomes ready
WorkerFinish ==
    /\ worker = "running"
    /\ \E r \in WorkerRuns(tools(opt_tool)[tix]) :
        /\ wout' = r.out
        /\ child' = <<r.rI, r.rM>>
    /\ worker' = "finished"
    /\ UNCHANGED <<opt_iter, opt_tool, opt_emit_only, pc, i, tix, golden,
                   timed_out, res, crash_cnt, mismatch_cnt, timeout_cnt, exit_code>>
    /\ UNCHANGED <<cwd, oldCwd, tvars, gvars, evars>>

\* fut.wait_for(TIME_LIMIT) returns ready
WaitReady ==
    /\ pc = "wait"
    /\ worker = "finished"
    /\ pc' = "get"
    /\ UNCHANGED <<opt_iter, opt_tool, opt_emit_only, i, tix, golden, worker,
                   wout, child, timed_out, res, crash_cnt, mismatch_cnt,
                   timeout_cnt, exit_code>>
    /\ UNCHANGED <<cwd, oldCwd, tvars, gvars, evars>>

\* fut.wait_for(TIME_LIMIT) returns timeout: ++timeout_cnt
WaitTimeout ==
    /\ pc = "wait"
    /\ worker = "running"
    /\ timeout_cnt' = timeout_cnt + 1
    /\ timed_out' = TRUE
    /\ pc' = "get"
    /\ UNCHANGED <<opt_iter, opt_tool, opt_emit_only, i, tix, golden, worker,
                   wout, child, res, crash_cnt, mismatch_cnt, exit_code>>
    /\ UNCHANGED <<cwd, oldCwd, tvars, gvars, evars>>

\* the collection of a result without the wait of fut.get(): after a
\* time-out the worker is left behind and the empty result is judged
Collect_NoWait ==
    /\ pc = "get"
    /\ worker \in {"running", "finished"}
    /\ worker' = "idle"
    /\ IF wout.kind = "throw"
       THEN /\ pc' = "terminated"
            /\ UNCHANGED <<res, crash_cnt, mismatch_cnt, tix>>
       ELSE /\ res' = wout
            /\ crash_cnt' = IF ToolFailure(wout) THEN crash_cnt + 1 ELSE crash_cnt
            /\ mismatch_cnt' =
                   IF Mismatch(name(tools(opt_tool)[tix]), wout, golden)
                   THEN mismatch_cnt + 1 ELSE mismatch_cnt
            /\ tix' = tix + 1
            /\ pc' = "tools"
    /\ UNCHANGED <<opt_iter, opt_tool, opt_emit_only, i, golden, wout, child,
                   timed_out, timeout_cnt, exit_code>>
    /\ UNCHANGED <<cwd, oldCwd, tvars, gvars, evars>>

\* ToolResult res = fut.get(): blocks until the worker has finished and
\* rethrows its exception, which nothing in main() catches; then the two
\* tests of main.cpp:210-221
Collect ==
    /\ pc = "get"
    /\ worker = "finished"
    /\ worker' = "idle"
    /\ IF wout.kind = "throw"
       THEN /\ pc' = "terminated"
            /\ UNCHANGED <<res, crash_cnt, mismatch_cnt, tix>>
       ELSE /\ res' = wout
            /\ crash_cnt' = IF ToolFailure(wout) THEN crash_cnt + 1 ELSE crash_cnt
            /\ mismatch_cnt' =
                   IF Mismatch(name(tools(opt_tool)[tix]), wout, golden)
                   THEN mismatch_cnt + 1 ELSE mismatch_cnt
            /\ tix' = tix + 1
            /\ pc' = "tools"
    /\ UNCHANGED <<opt_iter, opt_tool, opt_emit_only, i, golden, wout, child,
                   timed_out, timeout_cnt, exit_code>>
    /\ UNCHANGED <<cwd, oldCwd, tvars, gvars, evars>>

\* the end of the loop body: bar.tick(), ++i; the locals of the body (golden,
\* fut, res) go out of scope
IterEnd ==
    /\ pc = "tools"
    /\ tix > Len(tools(opt_tool))
    /\ i' = i + 1
    /\ pc' = "loop"
    /\ golden' = 0
    /\ wout' = NoRun
    /\ child' = <<NoRun, NoRun>>
    /\ timed_out' = FALSE
    /\ res' = NoRun
    /\ UNCHANGED <<opt_iter, opt_tool, opt_emit_only, tix, worker, crash_cnt,
                   mismatch_cnt, timeout_cnt, exit_code>>
    /\ UNCHANGED <<cwd, oldCwd, tvars, gvars, evars>>

\* after the loop: the summary and the return value
Summary ==
    /\ pc = "loop"
    /\ i >= opt_iter
    /\ exit_code' = ExitCode(crash_cnt, mismatch_cnt, timeout_cnt)
    /\ pc' = "done"
    /\ UNCHANGED <<opt_iter, opt_tool, opt_emit_only, i, tix, golden, worker,
                   wout, child, timed_out, res, crash_cnt, mismatch_cnt,
                   timeout_cnt>>
    /\ UNCHANGED <<cwd, oldCwd, tvars, gvars, evars>>

\* the steps of the thread of main()
MainNext ==
    \/ IterBegin
    \/ GenerateRtl
    \/ ToolLaunch
    \/ WaitReady
    \/ WaitTimeout
    \/ Collect
    \/ IterEnd
    \/ Summary

Next ==
    \/ IterBegin
    \/ GenerateRtl
    \/ ToolLaunch
    \/ WorkerFinish
    \/ WaitReady
    \/ WaitTimeout
    \/ Collect
    \/ IterEnd
    \/ Summary

Spec == Init /\ [][Next]_vars

(***************************************************************************)
(* GenSpec: main() constructs one generator from its options and calls it  *)
(* once per iteration; a backend then writes its testbench for the file.   *)
(***************************************************************************)
\* the greatest --depth of a loop design and of a hierarchy
MaxDepth == 3

MaxHierDepth == 2
\* --min-start and --max-start range over 0..MaxStart
MaxStart == 1
\* --min-iter and --max-iter range over 0..MaxIterCount
MaxIterCount == 2
\* --min-child and --max-child range over 1..MaxChild
MaxChild == 3
\* the generator is called at most this many times
MaxCalls == 2

\* struct Opt as the command line can set it, for the loop generator
LoopOpts ==
    {[hier |-> FALSE, seed |-> s, depth |-> d, min_start |-> a, max_start |-> b,
      min_iter |-> it[1], max_iter |-> it[2], random_update |-> TRUE,
      min_child |-> 2, max_child |-> 4, root_pref |-> FALSE, rel_up |-> FALSE,
      alias |-> FALSE, defparam |-> FALSE, dump_gen |-> FALSE] :
        s \in Seeds, d \in 0..MaxDepth, a \in 0..MaxStart, b \in 0..MaxStart,
        it \in {r \in (0..MaxIterCount) \X (0..MaxIterCount) : r[1] <= r[2]}}

\* struct Opt as the command line can set it, for the hierarchy generator
HierOpts ==
    {[hier |-> TRUE, seed |-> s, depth |-> d, min_start |-> 0, max_start |-> 0,
      min_iter |-> 2, max_iter |-> 16, random_update |-> TRUE,
      min_child |-> a, max_child |-> b, root_pref |-> rp, rel_up |-> ru,
      alias |-> FALSE, defparam |-> dp, dump_gen |-> FALSE] :
        s \in Seeds, d \in 0..MaxHierDepth, a \in 1..MaxChild, b \in 1..MaxChild,
        rp \in BOOLEAN, ru \in BOOLEAN, dp \in BOOLEAN}

\* the last statement of parse(): if (o.min_child > o.max_child) std::swap
parse(o) ==
    IF o.min_child > o.max_child
    THEN [o EXCEPT !.min_child = o.max_child, !.max_child = o.min_child]
    ELSE o

\* veri::HierCfg cfg as main() fills it
HierCfg(opt) ==
    [depth |-> opt.depth, minChild |-> opt.min_child, maxChild |-> opt.max_child,
     rootPrefix |-> opt.root_pref, relativeUp |-> opt.rel_up,
     aliasStmt |-> opt.alias, defparam |-> opt.defparam,
     enableBigGen |-> opt.dump_gen]

\* what undefined behaviour makes of a call; one outcome where the options
\* leave none to choose
Undefs(opt) ==
    IF ~opt.hier /\ (opt.min_start > opt.max_start \/ opt.min_iter < 1)
    THEN [int : -1..(MaxStart + 1), crash : BOOLEAN, word : {Zero32}]
    ELSE IF opt.hier /\ opt.depth >= 1 /\ (opt.min_child < 2 \/ opt.max_child < 2)
    THEN [int : 0..2, crash : {FALSE}, word : {Zero32}]
            \cup {[int |-> 0, crash |-> TRUE, word |-> Zero32]}
    ELSE {[int |-> 0, crash |-> TRUE, word |-> Zero32]}

\* the result of a call without the generator object
Outcome(r) ==
    [kind |-> r.kind, what |-> r.what, fn |-> r.fn, text |-> r.text, value |-> r.value]

\* the testbench tb.v each backend writes for the module `top`:
\* 1 Quartus, 2 QuartusPro, 3 Vivado, 4 Icarus, 5 ModelSimOnly
write_tb(t, top) ==
    [module |-> "tb", dut |-> top,
     inst |-> IF t = 5 THEN "top" ELSE "dut",
     port |-> IF t \in {1, 4} THEN "result" ELSE "out"]

\* main() after it constructed the generator
GenStart(o) ==
    /\ g_pc = "ready"
    /\ g_cfg = parse(o)
    /\ g_gen = IF o.hier THEN HierarchyGen(o.seed, HierCfg(parse(o)))
               ELSE Generator(o.seed, o.min_start, o.max_start,
                              o.min_iter, o.max_iter, o.random_update)
    /\ g_calls = 0
    /\ g_out = NoOutcome
    /\ g_tb = NoTB

\* the call of the generator in an iteration, r its result; an exception
\* that leaves it ends the process
Generate(r) ==
    /\ g_gen' = r.g
    /\ g_out' = Outcome(r)
    /\ g_calls' = g_calls + 1
    /\ g_pc' = IF r.kind = "throw" THEN "terminated" ELSE "made"
    /\ g_tb' = NoTB
    /\ UNCHANGED <<g_cfg, tvars, dvars, evars>>

\* auto [fn,val] = loopGen->make("top", i, opt.depth)
LoopMake ==
    /\ g_pc = "ready" /\ ~g_cfg.hier /\ g_calls < MaxCalls
    /\ \E ub \in Undefs(g_cfg) :
          Generate(make(g_gen, "top", g_calls, g_cfg.depth, ub))

\* auto [p, val] = hierGen->write("top.v")
HierWrite ==
    /\ g_pc = "ready" /\ g_cfg.hier /\ g_calls < MaxCalls
    /\ \E ub \in Undefs(g_cfg) : Generate(write(g_gen, "top.v", ub))

\* t->run(rtlPath, "top", tDir) up to the testbench it writes
WriteTestbench ==
    /\ g_pc = "made"
    /\ \E t \in 1..5 : g_tb' = write_tb(t, "top")
    /\ g_pc' = "ready"
    /\ UNCHANGED <<g_cfg, g_gen, g_calls, g_out, tvars, dvars, evars>>

GenInit ==
    /\ ToolIdle
    /\ MainStart(0, 7, FALSE)
    /\ ExprIdle
    /\ \E o \in LoopOpts \cup HierOpts : GenStart(o)

GenNext == LoopMake \/ HierWrite \/ WriteTestbench

GenSpec == GenInit /\ [][GenNext]_vars

(***************************************************************************)
(* LoopSpec: the class Generator on its own.  Its constructor takes the    *)
(* update mode as an argument (main() always passes true), and make can be *)
(* called again on the object whatever was done with the file before.      *)
(***************************************************************************)
\* the arguments of Generator::Generator and the depth given to make, in the
\* form of the options
GeneratorArgs ==
    {[o EXCEPT !.random_update = ru] : o \in LoopOpts, ru \in BOOLEAN}

LoopInit ==
    /\ ToolIdle
    /\ MainStart(0, 7, FALSE)
    /\ ExprIdle
    /\ \E o \in GeneratorArgs : GenStart(o)

\* gen.make("top", idx, depth), idx the number of calls made before
ClassMake ==
    /\ g_pc \in {"ready", "made"} /\ ~g_cfg.hier /\ g_calls < MaxCalls
    /\ \E ub \in Undefs(g_cfg) :
          Generate(make(g_gen, "top", g_calls, g_cfg.depth, ub))

LoopSpec == LoopInit /\ [][ClassMake]_vars

(***************************************************************************)
(* EmitSpec: main() in emit-only mode with --iter 1: an iteration calls    *)
(* the generator for top.v in the run folder and, back in the directory it *)
(* came from, calls it again for the file to emit.                         *)
(***************************************************************************)
\* fs::path outName = fs::path{opt.emit_file}, the --emit-file argument
outName == "emit.v"

EmitInit ==
    /\ ToolIdle
    /\ MainStart(1, 7, TRUE)
    /\ ExprIdle
    /\ \E o \in LoopOpts \cup HierOpts : GenStart(o)

\* the end of an emit-only iteration, second the result of its second call
EmitWritten(second) ==
    /\ g_gen' = second.g
    /\ g_out' = Outcome(second)
    /\ g_calls' = g_calls + 2
    /\ g_pc' = IF second.kind = "throw" THEN "terminated" ELSE "made"
    /\ g_tb' = NoTB
    /\ UNCHANGED <<g_cfg, tvars, dvars, evars>>

\* an emit-only iteration after its first call, first the result of it: an
\* exception that leaves the call ends the process; else
\* hierGen->write(outName.string()) or
\* loopGen->make(outName.string(), i, opt.depth)
EmitSecond(first) ==
    IF first.kind = "throw"
    THEN Generate(first)
    ELSE \E ub \in Undefs(g_cfg) :
            IF g_cfg.hier
            THEN EmitWritten(write(first.g, outName, ub))
            ELSE EmitWritten(make(first.g, outName, g_calls \div 2, g_cfg.depth, ub))

\* an emit-only iteration, from hierGen->write("top.v") or
\* loopGen->make("top", i, opt.depth) on
EmitOnly ==
    /\ g_pc = "ready" /\ g_calls + 2 <= MaxCalls
    /\ \E ub \in Undefs(g_cfg) :
          IF g_cfg.hier
          THEN EmitSecond(write(g_gen, "top.v", ub))
          ELSE EmitSecond(make(g_gen, "top", g_calls \div 2, g_cfg.depth, ub))

EmitSpec == EmitInit /\ [][EmitOnly]_vars

(***************************************************************************)
(* BigSpec: main() with --hier --include-gen: the leaves of the hierarchy  *)
(* can be loop designs of the generator bigGen_.                           *)
(***************************************************************************)
\* struct Opt as the command line can set it with --hier --include-gen
\* --defparam, the names left plain
BigOpts ==
    {[o EXCEPT !.dump_gen = TRUE] :
        o \in {h \in HierOpts : h.defparam /\ ~h.root_pref /\ ~h.rel_up}}

BigInit ==
    /\ ToolIdle
    /\ MainStart(0, 7, FALSE)
    /\ ExprIdle
    /\ \E o \in BigOpts : GenStart(o)

BigSpec == BigInit /\ [][HierWrite \/ WriteTestbench]_vars

(***************************************************************************)
(* ExprSpec: one evaluation of a BinExpr, of ast.hpp ("ast") or of the     *)
(* generator's header ("gen"), whose eval takes the values of the wires.   *)
(***************************************************************************)
\* a BinExpr holds at most this many operands
MaxOperands == 3

\* the words the operands are made of
ExprWords == {Zero32, u32(0, 1), u32(32768, 0), u32(65535, 65535)}

\* const std::vector<uint32_t>& values of eval(values)
ExprValues == <<u32(0, 65535), u32(43690, 21845)>>

\* the operands: constants and references to wires
ExprOperands ==
    {Const(w, <<>>) : w \in ExprWords}
        \cup {WireRef(<<"t0", n>>, n) : n \in 0..(Len(ExprValues) - 1)}

ExprLists == UNION {[1..n -> ExprOperands] : n \in 0..MaxOperands}

ExprInit ==
    /\ ToolIdle
    /\ MainStart(0, 7, FALSE)
    /\ GenIdle
    /\ e_pc = "built"
    /\ e_hdr \in {"ast", "gen"}
    /\ \E o \in (IF e_hdr = "ast" THEN ast_BinOps ELSE BinOps), v \in ExprLists :
          e_expr = BinExpr(o, v)
    /\ e_out = Value(Zero32)

\* ast.hpp: e.eval()
AstEval ==
    /\ e_pc = "built" /\ e_hdr = "ast"
    /\ \E undef \in ExprWords : e_out' = ast_eval(e_expr, undef)
    /\ e_pc' = "evaluated"
    /\ UNCHANGED <<e_hdr, e_expr, tvars, dvars, gvars>>

\* the generator's header: e.eval(values)
GenEval ==
    /\ e_pc = "built" /\ e_hdr = "gen"
    /\ e_out' = eval(e_expr, ExprValues)
    /\ e_pc' = "evaluated"
    /\ UNCHANGED <<e_hdr, e_expr, tvars, dvars, gvars>>

ExprNext == AstEval \/ GenEval

ExprSpec == ExprInit /\ [][ExprNext]_vars

(***************************************************************************)
(* Properties of main() (Spec).                                            *)
(***************************************************************************)
\* the step of main() that takes the result of the current run and tests it
CollectStep == pc = "get" /\ pc' = "tools"

\* C1: when main() has returned, the exit code is 0 iff the three counters
\* are zero, 3 if a crash was counted, else 2 if a time-out was counted, else
\* 1 (mismatches only).
C1_ExitCodeDominance ==
    pc = "done" =>
        /\ exit_code = 0 <=> (crash_cnt = 0 /\ timeout_cnt = 0 /\ mismatch_cnt = 0)
        /\ crash_cnt > 0 => exit_code = 3
        /\ (crash_cnt = 0 /\ timeout_cnt > 0) => exit_code = 2
        /\ (crash_cnt = 0 /\ timeout_cnt = 0 /\ mismatch_cnt > 0) => exit_code = 1

\* a run that counted a crash, a time-out and a mismatch has returned 3
C1_Witness ==
    /\ pc = "done"
    /\ crash_cnt > 0
    /\ timeout_cnt > 0
    /\ mismatch_cnt > 0
    /\ exit_code = 3

\* C2: the mismatch counter is incremented by a tool run iff the tool is not
\* CompareSim, its result has success = true and its value differs from the
\* oracle value; no other step changes the counter.
C2_MismatchIffSuccessfulAndDifferent ==
    [][IF CollectStep
       THEN (mismatch_cnt' = mismatch_cnt + 1) <=>
                /\ name(opt_tool) # "CompareSim"
                /\ res'.success
                /\ res'.value # golden
       ELSE mismatch_cnt' = mismatch_cnt]_vars

\* C3: with CompareSim selected no step increments the mismatch counter,
\* whatever value the run returned and whatever the oracle value is.
C3_CompareSimNeverMismatch ==
    [][opt_tool = 6 => mismatch_cnt' = mismatch_cnt]_vars

\* a CompareSim run whose value differs from the oracle value has been taken
\* and tested, and no mismatch is counted
C3_Witness ==
    /\ opt_tool = 6
    /\ pc = "tools"
    /\ tix = 2
    /\ res.kind = "result"
    /\ res.success
    /\ res.value # golden
    /\ mismatch_cnt = 0

\* the two children of the CompareSim run both returned success = true, with
\* different values
ChildrenDiffer ==
    /\ opt_tool = 6
    /\ child[1].kind = "result" /\ child[1].success
    /\ child[2].kind = "result" /\ child[2].success
    /\ child[1].value # child[2].value

\* C5 as claimed: a CompareSim run whose simulators both succeed with
\* different values is counted as a mismatch and not as a crash.
C5_DifferCountedAsMismatch ==
    [][(CollectStep /\ ChildrenDiffer) =>
           (mismatch_cnt' = mismatch_cnt + 1 /\ crash_cnt' = crash_cnt)]_vars

\* C5 as amended: a CompareSim run whose simulators both succeed with
\* different values is counted as a crash and not as a mismatch.
C5_DifferCountedAsCrash ==
    [][(CollectStep /\ ChildrenDiffer) =>
           (crash_cnt' = crash_cnt + 1 /\ mismatch_cnt' = mismatch_cnt)]_vars

\* such a run has been taken and tested: one crash, no mismatch
C5_Witness ==
    /\ ChildrenDiffer
    /\ pc = "tools"
    /\ tix = 2
    /\ crash_cnt = 1
    /\ mismatch_cnt = 0

\* C6: once the watchdog has fired for a run, main() goes on without waiting
\* for the run to finish: while the worker is still running, main() has a
\* step it can take.
C6_TimeoutDoesNotWaitForWorker ==
    (timed_out /\ worker = "running") => ENABLED MainNext

\* C7: the result of a run that timed out is discarded: after the time-out
\* is counted, that run changes none of the three counters.
C7_TimedOutResultDiscarded ==
    [][timed_out =>
           /\ crash_cnt' = crash_cnt
           /\ mismatch_cnt' = mismatch_cnt
           /\ timeout_cnt' = timeout_cnt]_vars

\* C8: no tool failure ends the run early: main() is never terminated by
\* the exception of a run whose RES= text could not be parsed
\* (std::invalid_argument) or whose test bench or script could not be written
\* (std::runtime_error), and when it returns it has executed all opt.iter
\* iterations.
C8_ToolFailureNeverAborts ==
    /\ ~(pc = "terminated" /\ wout.log \in {"invalid_argument", "runtime_error"})
    /\ pc = "done" => i = opt_iter

(***************************************************************************)
(* Properties of Tool::run (ToolSpec).                                     *)
(***************************************************************************)
\* C4: when both children of CompareSim returned, CompareSimTool::run returns
\* success = true iff both returned success = true with equal values, and
\* then its value is that common value.
C4_CompareSimResult ==
    (t_pc = "returned" /\ t_tool = 6 /\ t_rI.kind = "result" /\ t_rM.kind = "result")
        => /\ t_out.kind = "result"
           /\ t_out.success <=>
                  (t_rI.success /\ t_rM.success /\ t_rI.value = t_rM.value)
           /\ t_out.success => (t_out.value = t_rI.value /\ t_out.value = t_rM.value)

\* both simulators printed the same value and CompareSim returned it
C4_Witness ==
    /\ t_pc = "returned"
    /\ t_tool = 6
    /\ t_rI.success
    /\ t_rM.success
    /\ t_out.success
    /\ t_out.value = 26

\* the hexadecimal token behind the first RES= of the first line of the
\* transcript that holds RES= ("" when there is no such line or no digit
\* follows)
FirstResToken(text) == HexRun(ScanRes(FileLines(text), 1), 1)

\* C9: for every backend but CompareSim, a run whose steps all succeed
\* returns a ToolResult (raises no error); it has success = false when no
\* line holds RES= or no hexadecimal token follows the first RES=, and
\* otherwise carries the value of that token.
C9_ParseFailureIsReturned ==
    (t_pc = "returned" /\ t_tool \in 1..5 /\ t_env.fail = {})
        => /\ t_out.kind = "result"
           /\ FirstResToken(t_env.log) = <<>> => ~t_out.success
           /\ FirstResToken(t_env.log) # <<>> =>
                  /\ t_out.success
                  /\ t_out.value = stoul(FirstResToken(t_env.log)).v

\* C10: for every backend but CompareSim, a run in which a subprocess exits
\* with a non-zero status (and every file can be written) returns a
\* ToolResult with success = false.
C10_FailedSubprocessIsFailure ==
    (/\ t_pc = "returned"
     /\ t_tool \in 1..5
     /\ t_env.fail # {}
     /\ t_env.fail \subseteq Subprocesses)
        => (t_out.kind = "result" /\ ~t_out.success)

(***************************************************************************)
(* Properties of the generators and the testbenches (GenSpec).             *)
(***************************************************************************)
\* the module named nm of a file, the file given as its modules
ModuleNamed(text, nm) == text[CHOOSE n \in 1..Len(text) : text[n].name = nm]

\* a testbench stands written for the design the generator wrote last
TestbenchWritten == g_pc = "ready" /\ g_calls > 0 /\ g_tb # NoTB

\* C11: for every backend and both generators, the port the testbench
\* connects on the instance of the design is the one output port the
\* generated top module declares.
C11_TestbenchPortIsTopOutput ==
    TestbenchWritten =>
        LET top == ModuleNamed(g_out.text, g_tb.dut)
        IN  /\ Len(top.ports) = 1
            /\ top.ports[1].dir = "output"
            /\ top.ports[1].name = g_tb.port

\* C17: in a hierarchy design every module but the root declares exactly one
\* port, the 32-bit output `out`, and the root declares exactly one port, the
\* 32-bit output `result`.
C17_HierarchyPorts ==
    (g_cfg.hier /\ g_pc = "made") =>
        \A n \in 1..Len(g_out.text) :
            g_out.text[n].ports =
                <<OutputPort(IF g_out.text[n].name = ROOT_NAME
                             THEN "result" ELSE "out")>>

\* the operands of the assign statements of a module body
AssignOperands(mod) ==
    UNION {{mod.body[s].rhs[o] : o \in 1..Len(mod.body[s].rhs)} :
              s \in {x \in 1..Len(mod.body) :
                        mod.body[x].k = "CustomStmt" /\ mod.body[x].what = "assign"}}

\* the hierarchical names of a module body that begin with $root
RootNames(mod) ==
    {o.path : o \in {x \in AssignOperands(mod) : x.k = "name" /\ x.path[1] = "$root"}}

\* C20: with root_prefix on, every backend's testbench is the module `tb`
\* and instantiates the design under the instance name `top`, so that every
\* emitted name $root.tb.top.<path> begins with an instance that exists.
C20_RootPrefixInstanceIsTop ==
    (TestbenchWritten /\ g_cfg.hier /\ g_cfg.root_pref) =>
        /\ g_tb.module = "tb"
        /\ g_tb.inst = "top"
        /\ \A n \in 1..Len(g_out.text) : \A p \in RootNames(g_out.text[n]) :
              StartsWith(p, <<"$root", ".", g_tb.module, ".", g_tb.inst, ".">>)

\* a generator constructed anew from the options, its engine at rng
FreshAt(opt, rng) ==
    IF opt.hier
    THEN [HierarchyGen(opt.seed, HierCfg(opt)) EXCEPT !.rng = rng]
    ELSE [Generator(opt.seed, opt.min_start, opt.max_start, opt.min_iter,
                    opt.max_iter, opt.random_update) EXCEPT !.rng = rng]

\* C12: generation is a function of the seed, the options and the calls made:
\* every call of make or write produces the file and the oracle value that
\* the same call produces on a generator constructed anew whose engine
\* stands where this one's stands, so nothing an earlier call left behind
\* but the position of the engine influences a later call.
C12_OnlyEngineCarriesOver ==
    [][g_calls' = g_calls + 1 =>
          \E ub \in Undefs(g_cfg) :
              g_out' = Outcome(IF g_cfg.hier
                               THEN write(FreshAt(g_cfg, g_gen.rng), "top.v", ub)
                               ELSE make(FreshAt(g_cfg, g_gen.rng), "top",
                                         g_calls, g_cfg.depth, ub))]_vars

\* a second call of make returned, made on a generator that held the
\* constants and trees of the first
C12_Witness ==
    /\ ~g_cfg.hier /\ g_calls = 2 /\ g_pc = "made"
    /\ g_cfg.min_start <= g_cfg.max_start /\ g_cfg.min_iter >= 1
    /\ g_gen.const_data # <<>>

\* the options leave the loop generator no undefined behaviour
Defined(opt) == opt.min_start <= opt.max_start /\ opt.min_iter >= 1

\* the statements of kind kd among body
OfKind(body, kd) == {body[s] : s \in {x \in 1..Len(body) : body[x].k = kd}}

\* the generate-for loops of a statement list, nested ones included
RECURSIVE Loops(_)
Loops(body) ==
    OfKind(body, "GenerateFor")
        \cup UNION {Loops(l.body) : l \in OfKind(body, "GenerateFor")}

\* the generate-for loops of the top module of a loop design
TopLoops(text) ==
    LET top == ModuleNamed(text, "top")
    IN  Loops([s \in 1..Len(SelectSeq(top.body, LAMBDA x :
                      x.k = "CustomStmt" /\ x.what = "generate")) |->
                  SelectSeq(top.body, LAMBDA x :
                      x.k = "CustomStmt" /\ x.what = "generate")[s].stmt])

\* C14: the loop generator called with depth = 0 writes a file without a
\* for-generate loop, and its oracle is the single constant c0.
C14_DepthZeroIsOneConstant ==
    (~g_cfg.hier /\ g_cfg.depth = 0 /\ g_pc = "made" /\ Defined(g_cfg)) =>
        /\ TopLoops(g_out.text) = {}
        /\ Len(g_gen.const_data) = 1
        /\ g_out.value = g_gen.const_data[1]

\* C15: with min_start > max_start every loop of a generated design starts
\* at a value of max_start..min_start, the two bounds taken in the other
\* order.
C15_InvertedStartRangeIsSwapped ==
    (~g_cfg.hier /\ g_pc = "made" /\ g_cfg.min_start > g_cfg.max_start) =>
        \A l \in TopLoops(g_out.text) :
            l.start \in g_cfg.max_start..g_cfg.min_start

\* C16: with min_iter < 1 every call of the loop generator ends with an
\* error: it returns no oracle value and no tool runs after it.
C16_NoIterationsIsAnError ==
    (~g_cfg.hier /\ g_cfg.min_iter < 1 /\ g_calls > 0) =>
        /\ g_out.kind = "throw"
        /\ g_pc = "terminated"

\* the value of a decimal literal, digit by digit, modulo 2^32
RECURSIVE ReadDec32(_)
ReadDec32(ds) ==
    IF ds = <<>> THEN Zero32
    ELSE LET a == ReadDec32(SubSeq(ds, 1, Len(ds) - 1))
             lo == a[2] * 10 + ds[Len(ds)]
         IN  u32((a[1] * 10 + lo \div Half) % Half, lo % Half)

\* the statements `what` of a module body
Customs(mod, what) ==
    SelectSeq(mod.body, LAMBDA x : x.k = "CustomStmt" /\ x.what = what)

\* a hierarchical name of the root module as the path below the root:
\* without a leading $root.tb.top. or top.
BelowRoot(p) ==
    IF StartsWith(p, <<"$root", ".", "tb", ".", ROOT_NAME, ".">>) THEN Erase(p, 6)
    ELSE IF StartsWith(p, <<ROOT_NAME, ".">>) THEN Erase(p, 2)
    ELSE p

\* the module that the instance path p names, followed from module nm
\* through the instances of the file; "" where an instance is missing
RECURSIVE InstanceModule(_, _, _)
InstanceModule(text, nm, p) ==
    IF p = <<>> THEN nm
    ELSE LET here == ModuleNamed(text, nm)
             found == {x \in 1..Len(here.body) :
                          here.body[x].k = "Instance" /\ here.body[x].inst = p[1]}
         IN  IF found = {} THEN ""
             ELSE InstanceModule(text, here.body[CHOOSE x \in found : TRUE].mod,
                                 Erase(p, 2))

\* the value elaboration gives the operand o of the root's assign: a
\* literal's value, or for the name <instance path>.out the parameter VALUE
\* of that instance, the defparam's literal where a defparam of the root
\* names that instance and the default of its module otherwise
RootOperand(text, o) ==
    LET root == ModuleNamed(text, ROOT_NAME)
        inst == SubSeq(BelowRoot(o.path), 1, Len(BelowRoot(o.path)) - 2)
        dps == Customs(root, "defparam")
        hit == {d \in 1..Len(dps) :
                   BelowRoot(dps[d].path) = inst \o <<".", "VALUE">>}
    IN  IF o.k = "literal" THEN ReadDec32(o.path[2])
        ELSE IF hit # {} THEN ReadHex32(dps[CHOOSE d \in hit : TRUE].value)
        ELSE ReadHex32(ModuleNamed(text, InstanceModule(text, ROOT_NAME, inst))
                           .params[1].default)

\* operand 1 op operand 2 op ... operand n of the root's assign
RECURSIVE RootFold(_, _, _)
RootFold(text, a, n) ==
    IF n = 1 THEN RootOperand(text, a.rhs[1])
    ELSE Apply32(a.opSym, RootFold(text, a, n - 1), RootOperand(text, a.rhs[n]))

BitAt(w, n) == IF n < 16 THEN (w[2] \div Pow2(n)) % 2 ELSE (w[1] \div Pow2(n - 16)) % 2

\* the word of the 32 bits b[0..31]
RECURSIVE BitsValue(_, _, _)
BitsValue(b, from, n) ==
    IF n = 0 THEN 0 ELSE b[from] + 2 * BitsValue(b, from + 1, n - 1)

WordOf(b) == u32(BitsValue(b, 16, 16), BitsValue(b, 0, 16))

\* the carry into bit n of x + y + cin
RECURSIVE CarryInto(_, _, _, _)
CarryInto(x, y, cin, n) ==
    IF n = 0 THEN cin
    ELSE LET c == CarryInto(x, y, cin, n - 1)
         IN  IF x[n - 1] + y[n - 1] + c >= 2 THEN 1 ELSE 0

\* x + y + cin on 32 bits, the carry out of bit 31 dropped
RippleAdd(x, y, cin) ==
    [n \in 0..31 |-> (x[n] + y[n] + CarryInto(x, y, cin, n)) % 2]

\* (a op b) mod 2^32, bit by bit
RefApply(op, a, b) ==
    LET x == [n \in 0..31 |-> BitAt(a, n)]
        y == [n \in 0..31 |-> BitAt(b, n)]
    IN  WordOf(CASE op = "Add" -> RippleAdd(x, y, 0)
                 [] op = "Sub" -> RippleAdd(x, [n \in 0..31 |-> 1 - y[n]], 1)
                 [] op = "And" -> [n \in 0..31 |-> x[n] * y[n]]
                 [] op = "Or" -> [n \in 0..31 |-> IF x[n] + y[n] > 0 THEN 1 ELSE 0]
                 [] op = "Xor" -> [n \in 0..31 |-> (x[n] + y[n]) % 2])

\* the value of an operand that has one
OperandValue(o) == IF o.k = "Const" THEN o.value ELSE ExprValues[o.index + 1]

\* ((v1 op v2) op v3) ... op vn
RECURSIVE RefFold(_, _, _)
RefFold(op, ops, n) ==
    IF n = 1 THEN OperandValue(ops[1])
    ELSE RefApply(op, RefFold(op, ops, n - 1), OperandValue(ops[n]))

\* every operand evaluates: under ast.hpp a WireRef does not
Evaluable(hdr, ops) ==
    hdr = "ast" => \A n \in 1..Len(ops) : ops[n].k = "Const"

\* C19: BinExpr::eval of one or more operands that evaluate returns the
\* left-to-right fold of the operator over the operands' values, every
\* intermediate result modulo 2^32, for add, sub, and, or and xor; of a
\* single operand it returns that operand's value.
C19_EvalIsLeftFold ==
    (/\ e_pc = "evaluated"
     /\ e_expr.ops # <<>>
     /\ Evaluable(e_hdr, e_expr.ops))
        => e_out = Value(RefFold(e_expr.op, e_expr.ops, Len(e_expr.ops)))

\* 0 - 1 - 0 evaluated to 0xffffffff
C19_Witness ==
    /\ e_pc = "evaluated" /\ e_hdr = "ast"
    /\ e_expr = BinExpr("Sub", <<Const(Zero32, <<>>), Const(u32(0, 1), <<>>),
                                 Const(Zero32, <<>>)>>)
    /\ e_out = Value(u32(65535, 65535))

(***************************************************************************)
(* Elaboration of a loop design, read from the file the generator wrote:   *)
(* what a simulator computes for the port `result`.  A net value is known  *)
(* or x; a net nobody drives, and a part-select outside its vector, is x.  *)
(***************************************************************************)
Known(v) == [x |-> FALSE, v |-> v]

Unknown == [x |-> TRUE, v |-> Zero32]

\* the values the genvar of the loop l takes, from v on
RECURSIVE IterValues(_, _)
IterValues(l, v) ==
    IF (l.condition.rel = "<" /\ v < l.condition.bound)
       \/ (l.condition.rel = ">" /\ v > l.condition.bound)
    THEN <<v>> \o IterValues(l, v + l.update_expr.step)
    ELSE <<>>

\* the value of the index expression ix with its genvar at v
IndexAt(ix, v) == IF ix.form = "var-start" THEN v - ix.start ELSE ix.start - v

\* CONSTS0[(j)*32 +: 32] of the concatenation {items[1], ..., items[n]}
SliceOf(items, j) ==
    IF j >= 0 /\ j < Len(items) THEN Known(ReadHex32(items[Len(items) - j]))
    ELSE Unknown

\* the value of arr[slot] under the drivers ds
NetValue(ds, arr, slot) ==
    LET vals == {d.val : d \in {c \in ds : c.arr = arr /\ c.slot = slot}}
    IN  IF Cardinality(vals) = 1 THEN CHOOSE v \in vals : TRUE ELSE Unknown

\* the value of the expression e over the nets the drivers ds drive
RECURSIVE NetExpr(_, _)
RECURSIVE NetFold(_, _, _)
NetFold(e, ds, n) ==
    IF n = 1 THEN NetExpr(e.ops[1], ds)
    ELSE LET a == NetFold(e, ds, n - 1)
             b == NetExpr(e.ops[n], ds)
         IN  IF a.x \/ b.x THEN Unknown ELSE Known(Apply32(tok(e.op), a.v, b.v))

NetExpr(e, ds) ==
    CASE e.k = "Const" -> Known(e.value)
      [] e.k = "WireRef" -> NetValue(ds, e.name[1], e.name[2])
      [] e.k = "BinExpr" -> NetFold(e, ds, Len(e.ops))

\* the drivers that the generate-for loop l, its statements and the loops
\* inside them put on the nets declared outside l
RECURSIVE ElabFor(_, _)
RECURSIVE ElabBody(_, _, _)
ElabBody(l, v, items) ==
    LET wires == {w.name : w \in {c \in OfKind(l.body, "CustomStmt") : c.what = "wire"}}
        inner == UNION {ElabFor(f, items) : f \in OfKind(l.body, "GenerateFor")}
        insts == {[arr |-> c.conns[1].net[1],
                   slot |-> IndexAt(c.conns[1].net[2], v),
                   val |-> SliceOf(items, IndexAt(c.params[1].index, v))] :
                     c \in OfKind(l.body, "Instance")}
        arms == UNION {{gc.cases[a] : a \in {b \in 1..Len(gc.cases) :
                                                gc.cases[b].label = v}} :
                          gc \in OfKind(l.body, "GenerateCase")}
        assigns == UNION {{[arr |-> arm.body[a].lhs[1], slot |-> arm.body[a].lhs[2],
                            val |-> NetExpr(arm.body[a].rhs, inner)] :
                              a \in 1..Len(arm.body)} : arm \in arms}
    IN  {d \in inner : d.arr \notin wires} \cup insts \cup assigns

ElabFor(l, items) ==
    LET vs == IterValues(l, l.start)
    IN  UNION {ElabBody(l, vs[n], items) : n \in 1..Len(vs)}

\* the value of the port `result` of the module top of a loop design
Elaborate(text) ==
    LET top == ModuleNamed(text, "top")
        items == Customs(top, "localparam")[1].items
        ds == UNION {ElabFor(c.stmt, items) : c \in
                        {c \in OfKind(top.body, "CustomStmt") : c.what = "generate"}}
        drv == {NetExpr(a.rhs, ds) : a \in
                   {c \in OfKind(top.body, "AssignStmt") : c.lhs = <<"result">>}}
    IN  IF Cardinality(drv) = 1 THEN CHOOSE v \in drv : TRUE ELSE Unknown

\* C13: for every seed, every depth and every configuration with
\* min_iter >= 1, the oracle value make returns is the value the written
\* design elaborates to on `result`: an innermost iteration drives its slot
\* with the slice of CONSTS0 its index expression selects, an iteration of
\* another level with induction value v drives the slot of the case arm
\* labelled v with that arm's reduction over the inner array, and result is
\* the top reduction over t0, all modulo 2^32.
C13_OracleIsElaboratedResult ==
    (~g_cfg.hier /\ g_pc = "made" /\ Defined(g_cfg)) =>
        Elaborate(g_out.text) = Known(g_out.value)

\* the array that the leftmost wire of the reduction e reads
RECURSIVE FirstWire(_)
FirstWire(e) == IF e.k = "WireRef" THEN e.name[1] ELSE FirstWire(e.ops[1])

\* C21: the oracle applies the reduction lists of the levels from the
\* innermost to the outermost: of the lists that calculateExpectedResult
\* walks, starting from the constants, the first is the one built at the
\* deepest level that is no leaf (it reads the leaf array), each later one
\* reads the array the one before it drives, and the last is level 0's.
C21_OracleWalksInnermostFirst ==
    (~g_cfg.hier /\ g_pc = "made" /\ Defined(g_cfg)) =>
        \A n \in 1..Len(g_gen.logic_trees) :
            \A k \in 1..Len(g_gen.logic_trees[n]) :
                FirstWire(g_gen.logic_trees[n][k])
                    = "t" \o ToString(Len(g_gen.logic_trees) + 1 - n)

(***************************************************************************)
(* Properties of the loops of a loop design (LoopSpec).                    *)
(***************************************************************************)
\* the level of the loop l, from its label lvl<level>
LevelOf(l) == CHOOSE lev \in 0..(MaxDepth + 1) : l.label = "lvl" \o ToString(lev)

\* the index the two forms give the induction value v of the loop l:
\* v - start where the loop counts up, start - v where it counts down
FormIndex(l, v) == IF l.update_expr.step = 1 THEN v - l.start ELSE l.start - v

\* the loop l with n iterations has one of the two forms, its induction
\* variable takes n values that the index maps onto 0..n-1, its instance of
\* const_block is indexed that way and each of its case arms assigns the slot
\* that the index of the arm's label names, one arm per value
LoopWellFormed(l, n) ==
    LET vs == IterValues(l, l.start)
    IN  /\ n >= 1
        /\ \/ /\ l.update_expr.step = 1
              /\ l.condition.rel = "<" /\ l.condition.bound = l.start + n
           \/ /\ l.update_expr.step = -1
              /\ l.condition.rel = ">" /\ l.condition.bound = l.start - n
        /\ Len(vs) = n
        /\ {FormIndex(l, vs[k]) : k \in 1..n} = 0..(n - 1)
        /\ \A c \in OfKind(l.body, "Instance") : \A k \in 1..n :
              /\ IndexAt(c.params[1].index, vs[k]) = FormIndex(l, vs[k])
              /\ IndexAt(c.conns[1].net[2], vs[k]) = FormIndex(l, vs[k])
        /\ \A gc \in OfKind(l.body, "GenerateCase") : \A k \in 1..n :
              LET arms == {a \in 1..Len(gc.cases) : gc.cases[a].label = vs[k]}
              IN  /\ Cardinality(arms) = 1
                  /\ \A a \in arms :
                        /\ Len(gc.cases[a].body) = 1
                        /\ gc.cases[a].body[1].lhs[2] = FormIndex(l, vs[k])

\* C22: every loop of a design, with start s and n >= 1 iterations, has the
\* increment form (var < s+n, +1, index var - s) or the decrement form
\* (var > s-n, -1, index s - var); its induction variable takes exactly n
\* values, the index maps them one-to-one onto 0..n-1, the case arm labelled
\* with the induction value v assigns the slot index(v), and with
\* random_update off every loop has the increment form.
C22_LoopFormsIndexEverySlotOnce ==
    (g_pc = "made" /\ Defined(g_cfg)) =>
        \A l \in TopLoops(g_out.text) :
            /\ LoopWellFormed(l, g_gen.N_per_level[LevelOf(l) + 1])
            /\ ~g_cfg.random_update => l.update_expr.step = 1

\* a design of depth 2 or more with a loop that counts down over two or
\* more values and selects its case arms by them
C22_Witness ==
    /\ g_pc = "made" /\ Defined(g_cfg) /\ g_cfg.depth >= 2 /\ g_cfg.random_update
    /\ \E l \in TopLoops(g_out.text) :
          /\ l.update_expr.step = -1
          /\ OfKind(l.body, "GenerateCase") # {}
          /\ g_gen.N_per_level[LevelOf(l) + 1] >= 2

(***************************************************************************)
(* Properties of the hierarchy designs (GenSpec), read from the file.      *)
(***************************************************************************)
\* the number of leaf modules below the instances body[from..] of a module
\* and below the module named nm: a module that instantiates nothing is a leaf
RECURSIVE LeafCount(_, _)
RECURSIVE LeafSum(_, _, _)
LeafSum(text, body, from) ==
    IF from > Len(body) THEN 0
    ELSE (IF body[from].k = "Instance" THEN LeafCount(text, body[from].mod) ELSE 0)
         + LeafSum(text, body, from + 1)

LeafCount(text, nm) ==
    IF OfKind(ModuleNamed(text, nm).body, "Instance") = {} THEN 1
    ELSE LeafSum(text, ModuleNamed(text, nm).body, 1)

\* the hierarchical names among the operands of the assign a
NameOperands(a) == SelectSeq(a.rhs, LAMBDA o : o.k = "name")

\* C26: in every module of a hierarchy design that holds an expression, the
\* number k of leaf paths among its operands is at least 2 and at most the
\* number of leaves below the module, the k paths are pairwise different and
\* each ends in .out; for every configuration with
\* 1 <= min_child <= max_child and depth >= 1.
C26_OperandsAreDistinctLeafPaths ==
    (g_cfg.hier /\ g_pc = "made" /\ g_cfg.depth >= 1) =>
        \A m \in 1..Len(g_out.text) :
            \A s \in 1..Len(Customs(g_out.text[m], "assign")) :
                LET ops == NameOperands(Customs(g_out.text[m], "assign")[s])
                IN  /\ 2 <= Len(ops)
                    /\ Len(ops) <= LeafCount(g_out.text, g_out.text[m].name)
                    /\ \A x \in 1..Len(ops) :
                          /\ ops[x].path[Len(ops[x].path)] = "out"
                          /\ \A y \in 1..Len(ops) :
                                ops[x].path = ops[y].path => x = y

\* the number of leaves of the tree below node, children c.. of it
RECURSIVE LeafNodes(_)
RECURSIVE LeafNodesFrom(_, _)
LeafNodesFrom(node, c) ==
    IF c > Len(node.children) THEN 0
    ELSE LeafNodes(node.children[c]) + LeafNodesFrom(node, c + 1)

LeafNodes(node) == IF node.children = <<>> THEN 1 ELSE LeafNodesFrom(node, 1)

\* the path p names, segment by segment from node on, a leaf and its pin out
RECURSIVE IsLeafAt(_, _)
IsLeafAt(node, p) ==
    /\ Len(p) >= 3 /\ p[1] = node.name /\ p[2] = "."
    /\ IF Len(p) = 3 THEN p[3] = "out" /\ node.children = <<>>
       ELSE \E c \in 1..Len(node.children) : IsLeafAt(node.children[c], Erase(p, 2))

\* c to the power d
RECURSIVE Power(_, _)
Power(c, d) == IF d = 0 THEN 1 ELSE c * Power(c, d - 1)

\* the tree that the next call of write builds
NextTree ==
    build_tree(g_gen.rng, g_gen.bigGen_, g_gen.cfg_, ROOT_NAME, 0,
               g_gen.cfg_.depth).node

WrittenPaths(text) ==
    UNION {{o.path : o \in {x \in AssignOperands(text[m]) : x.k = "name"}}
           \cup {Customs(text[m], "defparam")[d].path :
                    d \in 1..Len(Customs(text[m], "defparam"))} :
              m \in 1..Len(text)}

\* C24: normalised is idempotent on every hierarchical path the generator
\* produces: the leaf paths of the tree, and the operands as written, be
\* they left plain, prefixed with $root.tb.top. or written with a leading ..
C24_NormalisedIsIdempotent ==
    (g_cfg.hier /\ g_pc = "made") =>
        \A p \in WrittenPaths(g_out.text)
                 \cup {collect_leaf_paths(<<>>, NextTree, <<>>)[x] :
                          x \in 1..LeafNodes(NextTree)} :
            normalised(normalised(p)) = normalised(p)

\* a design with an operand of each of the three styles
C24_Witness ==
    /\ g_cfg.hier /\ g_pc = "made"
    /\ \E p \in WrittenPaths(g_out.text) : StartsWith(p, <<"$root", ".", "tb", ".">>)
    /\ \E p \in WrittenPaths(g_out.text) : StartsWith(p, <<".", ".">>)
    /\ \E p \in WrittenPaths(g_out.text) : StartsWith(p, <<ROOT_NAME, ".">>)

\* C25: for every operand of the root's expression, in whatever style it was
\* written, the text resolved back to the tree (normalised, then leaf_value)
\* gives the stored value of the same leaf as the plain path top.<...>.out of
\* that operand resolved the same way.
C25_QualifiedTextResolvesToSameLeaf ==
    [][(g_cfg.hier /\ g_calls' = g_calls + 1 /\ g_out'.kind = "result"
            /\ g_cfg.depth >= 1) =>
          \A o \in {x \in AssignOperands(ModuleNamed(g_out'.text, ROOT_NAME)) :
                       x.k = "name"} :
              leaf_value(NextTree, normalised(o.path))
                  = leaf_value(NextTree,
                               normalised(<<ROOT_NAME, ".">> \o BelowRoot(o.path)))]_vars

(***************************************************************************)
(* Properties of the scheduling and the directories of main() (Spec).      *)
(***************************************************************************)
\* C27: the thread of main() and its worker never overlap beyond one run of
\* a tool: a run is launched only when no worker exists, a worker runs only
\* while main() waits for it or is blocked in fut.get(), and main() goes to
\* the next tool, to the next iteration (its generation included) or to the
\* summary only when the worker has returned, also after a time-out; the
\* tool index goes up one by one from the first tool and the iteration index
\* one by one.
C27_OneToolRunAtATime ==
    [][/\ (worker' = "running" /\ worker # "running") => worker = "idle"
       /\ worker' = "running" => pc' \in {"wait", "get"}
       /\ (pc' # pc /\ pc' \in {"tools", "loop", "gen", "done"})
              => worker # "running" /\ worker' = "idle"
       /\ tix' # tix =>
              \/ tix' = 1 /\ pc = "gen"
              \/ tix' = tix + 1 /\ worker = "finished" /\ tix <= Len(tools(opt_tool))
       /\ i' # i => i' = i + 1 /\ i < opt_iter /\ worker' = "idle"]_vars

\* the watchdog fired in the second iteration, main() waited in fut.get()
\* for the worker all the same and has gone on to the end of the tools
C27_Witness ==
    /\ pc = "tools"
    /\ timed_out
    /\ worker = "idle"
    /\ tix = 2
    /\ i = 1

\* C29: an iteration leaves the current directory as it found it: whenever
\* main() is between two iterations or after the last one, in normal and in
\* emit-only mode, the current directory is the one kept in oldCwd before
\* the chdir into the run folder, which is root_cwd; and from the launch of
\* the first tool of an iteration to the collection of its last result the
\* current directory is root_cwd.
C29_IterationRestoresCwd ==
    /\ pc \in {"loop", "done"} => cwd = oldCwd /\ cwd = <<>>
    /\ pc \in {"tools", "wait", "get"} => cwd = <<>>

\* the tools of the second iteration start after a chdir into the second
\* run folder and back
C29_Witness ==
    /\ pc = "wait"
    /\ i = 1
    /\ ~opt_emit_only
    /\ cwd = <<>>

(***************************************************************************)
(* Properties of emit-only mode (EmitSpec).                                *)
(***************************************************************************)
\* the design of the first iteration of a normal run with the options and
\* the seed of g_cfg
NormalDesign(ub) ==
    IF g_cfg.hier
    THEN write(FreshAt(g_cfg, mt19937(g_cfg.seed)), "top.v", ub)
    ELSE make(FreshAt(g_cfg, mt19937(g_cfg.seed)), "top", 0, g_cfg.depth, ub)

\* C30: the file an emit-only run wrote for its first iteration holds the
\* modules and has the oracle value of the design a normal run with the same
\* seed and options generates in its first iteration, and the iteration
\* leaves the engine where the normal iteration leaves it.
C30_EmitOnlyWritesTheNormalDesign ==
    (g_pc = "made" /\ g_calls = 2) =>
        \E ub \in Undefs(g_cfg) :
            /\ NormalDesign(ub).kind = "result"
            /\ g_out.text = NormalDesign(ub).text
            /\ g_out.value = NormalDesign(ub).value
            /\ g_gen.rng = NormalDesign(ub).g.rng

(***************************************************************************)
(* Properties of the hierarchies with loop designs at leaves (BigSpec).    *)
(***************************************************************************)
\* the module a defparam statement of path <instance path>.VALUE sets the
\* parameter of: instances carry the names of their modules, so it is the
\* module named as the last instance of the path
DefparamTarget(text, dp) ==
    ModuleNamed(text, dp.path[Len(dp.path) - 2])

\* C28: in a design written with defparam and enableBigGen on, the instance
\* every defparam statement of the root names is an instance of a module
\* that declares the parameter VALUE, never of a loop design.
C28_DefparamTargetsParameterisedLeaf ==
    (g_cfg.hier /\ g_cfg.defparam /\ g_cfg.dump_gen /\ g_pc = "made") =>
        LET dps == Customs(ModuleNamed(g_out.text, ROOT_NAME), "defparam")
        IN  \A d \in 1..Len(dps) :
                \E p \in 1..Len(DefparamTarget(g_out.text, dps[d]).params) :
                    DefparamTarget(g_out.text, dps[d]).params[p].name = "VALUE"

====
